---- MODULE Spec2Model ----
(***************************************************************************)
(* Day 22 ("Monkey Map") of jackson-nestelroad/advent-of-code-2022:        *)
(* src/days/day22.rs.  The map text is scanned into blocks                 *)
(* (MonkeyMap::from_str); solve_a walks the blocks with flat wraparound    *)
(* (MonkeyMap::follow); solve_b folds the blocks into a cube               *)
(* (MonkeyCube::try_from) and walks the cube (MonkeyCube::follow).         *)
(*                                                                         *)
(* A text line of the map is abstracted to the columns of its first and    *)
(* last non-blank character and the columns of its '#' characters.         *)
(***************************************************************************)
EXTENDS Integers, Sequences, FiniteSets, TLC

VARIABLES
    lines,                \* input: the map text, one record per line
    instructions,         \* input: the parsed instruction sequence
    part,                 \* "a" (solve_a) or "b" (solve_b)
    pc,                   \* position in solve_a / solve_b
    blocks,               \* MonkeyMap.blocks
    face_length,          \* cube_face_length / MonkeyCube.face_length
    faces,                \* the faces vector / MonkeyCube.faces
    cube_net,             \* cube_net of try_from
    folded_cube_net,      \* folded_cube_net of try_from
    root,                 \* loop variable i of the folding loop
    queue, seen, state,   \* locals of one folding run
    popped,               \* history: the faces popped in the folding run
    current_block_index,  \* MonkeyMap::follow
    current_face,         \* MonkeyCube::follow
    position, dir,        \* follow (both navigators)
    ip,                   \* number of instructions consumed by follow
    remaining,            \* unit steps left in the current Move
    last_step,            \* history: what the walk did last
    result,               \* what solve_a / solve_b returned, or <<"Running">>
    cube_face,            \* a RotatingCubeFace taken through calls of rotate
    calls,                \* history: the calls made on their own, with results
    runs,                 \* the locals of the six folding runs, each on its own
    flat_walk             \* MonkeyMap::follow run beside MonkeyCube::follow

vars == <<lines, instructions, part, pc, blocks, face_length, faces, cube_net,
          folded_cube_net, root, queue, seen, state, popped,
          current_block_index,
          current_face, position, dir, ip, remaining, last_step, result,
          cube_face, calls, runs, flat_walk>>

\* The inputs of solve_a / solve_b
inputVars == <<lines, instructions, part>>

\* The locals of try_from outside a folding run
cubeVars == <<face_length, faces, cube_net, folded_cube_net>>

\* The loop variable and the locals of a folding run
foldVars == <<root, queue, seen, state, popped>>

\* The state of the parts run on their own, outside solve_a / solve_b: the
\* calls of rotate and difference, and the folding runs taken in any order
callVars == <<cube_face, calls, runs, flat_walk>>

----------------------------------------------------------------------------
(* Grid primitives *)

Point(x, y) == [x |-> x, y |-> y]

PointAdd(p, q) == Point(p.x + q.x, p.y + q.y)

PointSub(p, q) == Point(p.x - q.x, p.y - q.y)

in_range(p, min, max) ==
    min.x <= p.x /\ p.x < max.x /\ min.y <= p.y /\ p.y < max.y

Right == 0
Down == 1
Left == 2
Up == 3

DirectionCount == 4

Directions == 0 .. (DirectionCount - 1)

is_horizontal(d) == d % 2 = 0

is_vertical(d) == ~is_horizontal(d)

\* Mutant of rotate_left: the remainder is not taken.
rotate_left_saturating(d) == IF d = 0 THEN 0 ELSE d - 1

rotate_left(d) == (d - 1) % DirectionCount

rotate_right(d) == (d + 1) % DirectionCount

inverse(d) == (d + 2) % DirectionCount

delta(d) ==
    CASE d = Right -> Point(1, 0)
      [] d = Down  -> Point(0, 1)
      [] d = Left  -> Point(-1, 0)
      [] d = Up    -> Point(0, -1)

----------------------------------------------------------------------------
(* Instructions *)

Move(n) == [op |-> "Move", n |-> n]
RotateLeft == [op |-> "RotateLeft", n |-> 0]
RotateRight == [op |-> "RotateRight", n |-> 0]

----------------------------------------------------------------------------
(* MonkeyMapBlock and MonkeyMap::from_str *)

width(block) == block.max.x - block.min.x + 1

height(block) == block.max.y - block.min.y + 1

create_new_block(y, x_min, x_max) ==
    [min |-> Point(x_min, y), max |-> Point(x_max, y), walls |-> {}]

\* The walls of text line number y (0-based) as absolute points.
LineWalls(line, y) == {Point(x, y) : x \in line.walls}

\* The loop of from_str from line number y (0-based) on.  cur is the current
\* block, or <<>> when there is none yet.
RECURSIVE ScanLines(_, _, _, _)
ScanLines(ls, y, done, cur) ==
    IF y >= Len(ls)
    THEN IF cur = <<>>
         THEN done
         ELSE Append(done, [cur[1] EXCEPT !.max.y = y - 1])
    ELSE LET line == ls[y + 1]
             fresh == create_new_block(y, line.lo, line.hi)
             same == /\ cur # <<>>
                     /\ cur[1].min.x = line.lo
                     /\ cur[1].max.x = line.hi
             done2 == IF cur # <<>> /\ ~same
                      THEN Append(done, [cur[1] EXCEPT !.max.y = y - 1])
                      ELSE done
             block == IF same THEN cur[1] ELSE fresh
             block2 == [block EXCEPT !.walls = @ \cup LineWalls(line, y)]
         IN  ScanLines(ls, y + 1, done2, <<block2>>)

from_str(ls) == ScanLines(ls, 0, <<>>, <<>>)

----------------------------------------------------------------------------
(* Facing, Rotation, RotatingCubeFace *)

FaceUp == 0
FaceDown == 1

Zero == 0
Ninety == 1
OneEighty == 2
TwoSeventy == 3

RotationCount == 4

RECURSIVE RotateLeftTimes(_, _)
RotateLeftTimes(k, d) ==
    IF k = 0 THEN d ELSE RotateLeftTimes(k - 1, rotate_left(d))

\* Rotation::apply
apply(rotation, d) == RotateLeftTimes(rotation, d)

\* Rotation::rotate_left
rotation_rotate_left(rotation) == (rotation + 1) % RotationCount

mirror(rotation) == (rotation + 2) % RotationCount

RECURSIVE DifferenceLoop(_, _, _)
DifferenceLoop(d, to, diff) ==
    IF d = to
    THEN diff
    ELSE DifferenceLoop(rotate_left(d), to, rotation_rotate_left(diff))

RECURSIVE DifferenceLoopRight(_, _, _)
DifferenceLoopRight(d, to, diff) ==
    IF d = to
    THEN diff
    ELSE DifferenceLoopRight(rotate_right(d), to, rotation_rotate_left(diff))

\* Mutant of difference: the quarter turns are counted clockwise.
difference_clockwise(from, to) == DifferenceLoopRight(from, to, Zero)

\* Rotation::difference
difference(from, to) == DifferenceLoop(from, to, Zero)

\* RotatingCubeFace::Flat(Facing, Rotation): a is the facing, b the rotation.
Flat(facing, rotated) == [kind |-> "Flat", a |-> facing, b |-> rotated]

\* RotatingCubeFace::Standing(Direction, Direction): a is the first
\* component (standing_on), b the second (facing).
Standing(standing_on, facing) ==
    [kind |-> "Standing", a |-> standing_on, b |-> facing]

DefaultRotatingCubeFace == Flat(FaceUp, Zero)

\* Mutant of RotateFlat: the two components of the Standing state change
\* places.
RotateFlatExchanged(facing, rotated, d) ==
    Standing(
        IF facing = FaceUp THEN d ELSE inverse(d),
        IF facing = FaceUp
        THEN apply(mirror(rotated), inverse(d))
        ELSE apply(rotated, IF is_horizontal(d) THEN inverse(d) ELSE d))

\* RotatingCubeFace::rotate, from a Flat state
RotateFlat(facing, rotated, d) ==
    Standing(
        IF facing = FaceUp
        THEN apply(mirror(rotated), inverse(d))
        ELSE apply(rotated, IF is_horizontal(d) THEN inverse(d) ELSE d),
        IF facing = FaceUp THEN d ELSE inverse(d))

\* Mutant of RotateStanding: a standing face that is laid flat always lies
\* face up.
RotateStandingFaceUp(standing_on, facing, d) ==
    IF is_vertical(facing) /\ is_vertical(d)
    THEN LET rotated == difference(standing_on, facing)
         IN  Flat(FaceUp,
                  IF standing_on = d THEN mirror(rotated) ELSE rotated)
    ELSE IF is_horizontal(facing) /\ is_horizontal(d)
    THEN LET rotated == IF standing_on = facing
                        THEN Zero
                        ELSE IF standing_on = inverse(facing)
                        THEN OneEighty
                        ELSE difference(d, standing_on)
         IN  Flat(FaceUp, rotated)
    ELSE Standing(apply(difference(facing, d), standing_on), facing)

\* Mutant of RotateStanding: the rotation of a face laid flat is never
\* mirrored.
RotateStandingNoMirror(standing_on, facing, d) ==
    IF is_vertical(facing) /\ is_vertical(d)
    THEN Flat(IF d = facing THEN FaceDown ELSE FaceUp,
              difference(standing_on, facing))
    ELSE IF is_horizontal(facing) /\ is_horizontal(d)
    THEN LET rotated == IF standing_on = facing
                        THEN Zero
                        ELSE IF standing_on = inverse(facing)
                        THEN OneEighty
                        ELSE difference(d, standing_on)
         IN  Flat(IF d = facing THEN FaceDown ELSE FaceUp, rotated)
    ELSE Standing(apply(difference(facing, d), standing_on), facing)

\* Mutant of RotateStanding: a face that stays standing keeps the edge it
\* stands on.
RotateStandingKeepsEdge(standing_on, facing, d) ==
    IF is_vertical(facing) /\ is_vertical(d)
    THEN LET rotated == difference(standing_on, facing)
         IN  Flat(IF d = facing THEN FaceDown ELSE FaceUp,
                  IF standing_on = d THEN mirror(rotated) ELSE rotated)
    ELSE IF is_horizontal(facing) /\ is_horizontal(d)
    THEN LET rotated == IF standing_on = facing
                        THEN Zero
                        ELSE IF standing_on = inverse(facing)
                        THEN OneEighty
                        ELSE difference(d, standing_on)
         IN  Flat(IF d = facing THEN FaceDown ELSE FaceUp, rotated)
    ELSE Standing(standing_on, facing)

\* RotatingCubeFace::rotate, from a Standing state
RotateStanding(standing_on, facing, d) ==
    IF is_vertical(facing) /\ is_vertical(d)
    THEN LET flat_facing == IF d = facing THEN FaceDown ELSE FaceUp
             rotated == difference(standing_on, facing)
         IN  Flat(flat_facing,
                  IF standing_on = d THEN mirror(rotated) ELSE rotated)
    ELSE IF is_horizontal(facing) /\ is_horizontal(d)
    THEN LET flat_facing == IF d = facing THEN FaceDown ELSE FaceUp
             rotated == IF standing_on = facing
                        THEN Zero
                        ELSE IF standing_on = inverse(facing)
                        THEN OneEighty
                        ELSE difference(d, standing_on)
         IN  Flat(flat_facing, rotated)
    ELSE Standing(apply(difference(facing, d), standing_on), facing)

rotate(s, d) ==
    IF s.kind = "Flat"
    THEN RotateFlat(s.a, s.b, d)
    ELSE RotateStanding(s.a, s.b, d)

----------------------------------------------------------------------------
(* MonkeyCube::try_from *)

FaceCount == 6

FaceIndexes == 0 .. (FaceCount - 1)

\* Option::None of the cube_net tables, and the usize::MAX placeholder of
\* MonkeyCubeFace.neighbors.
None == -1

SeqMax(s) == CHOOSE m \in {s[k] : k \in DOMAIN s} :
                 \A k \in DOMAIN s : s[k] <= m

SeqMin(s) == CHOOSE m \in {s[k] : k \in DOMAIN s} :
                 \A k \in DOMAIN s : m <= s[k]

\* Mutant of cube_face_length: the least block height.
cube_face_length_min(bs) == SeqMin([k \in DOMAIN bs |-> height(bs[k])])

\* blocks.iter().map(height).max(); only evaluated on a non-empty list.
cube_face_length(bs) == SeqMax([k \in DOMAIN bs |-> height(bs[k])])

\* The face of the block at grid position (i, j) of the block.
FaceAt(block, fl, i, j) ==
    LET min == Point(block.min.x + i * fl, block.min.y + j * fl)
        max == PointAdd(min, Point(fl, fl))
    IN  [min |-> min,
         max |-> max,
         walls |-> {PointSub(p, min) :
                       p \in {q \in block.walls : in_range(q, min, max)}},
         neighbors |-> [d \in Directions |-> None]]

\* The faces one block contributes: for i in 0..x_blocks, for j in 0..y_blocks.
BlockFaces(block, fl) ==
    LET x_blocks == width(block) \div fl
        y_blocks == height(block) \div fl
    IN  [k \in 1 .. (x_blocks * y_blocks) |->
            FaceAt(block, fl, (k - 1) \div y_blocks, (k - 1) % y_blocks)]

RECURSIVE ExtractFrom(_, _, _)
ExtractFrom(bs, fl, k) ==
    IF k > Len(bs)
    THEN <<>>
    ELSE BlockFaces(bs[k], fl) \o ExtractFrom(bs, fl, k + 1)

ExtractFaces(bs, fl) == ExtractFrom(bs, fl, 1)

\* faces.iter().position(|face| p.in_range(&face.min, &face.max))
FacePosition(fs, p) ==
    LET hits == {k \in 1 .. Len(fs) : in_range(p, fs[k].min, fs[k].max)}
    IN  IF hits = {}
        THEN None
        ELSE (CHOOSE k \in hits : \A m \in hits : k <= m) - 1

\* One of the four probes of face i: edge d, probe point p, back edge back.
Probe(net, fs, i, d, p, back) ==
    IF net[i][d] # None
    THEN net
    ELSE LET k == FacePosition(fs, p)
         IN  IF k = None
             THEN net
             ELSE [[net EXCEPT ![i][d] = k] EXCEPT ![k][back] = i]

\* The body of the net loop for face i: Right, Left, Up, Down.
NetOfFace(net, fs, i) ==
    LET min == fs[i + 1].min
        max == fs[i + 1].max
        n1 == Probe(net, fs, i, Right, Point(max.x, min.y), Left)
        n2 == Probe(n1, fs, i, Left, PointSub(min, Point(1, 0)), Right)
        n3 == Probe(n2, fs, i, Up, PointSub(min, Point(0, 1)), Down)
    IN  Probe(n3, fs, i, Down, Point(min.x, max.y), Up)

RECURSIVE BuildNetFrom(_, _, _)
BuildNetFrom(net, fs, i) ==
    IF i >= Len(fs)
    THEN net
    ELSE BuildNetFrom(NetOfFace(net, fs, i), fs, i + 1)

EmptyNet == [i \in FaceIndexes |-> [d \in Directions |-> None]]

BuildNet(fs) == BuildNetFrom(EmptyNet, fs, 0)

\* Mutant of FoldEdges: a neighbor already seen is not put in the queue
\* again, but its state is set again.
RECURSIVE FoldEdgesReassign(_, _, _, _, _)
FoldEdgesReassign(st, net, i, p, edge) ==
    IF edge >= DirectionCount
    THEN st
    ELSE LET neighbor == net[p][edge]
         IN  IF neighbor = None
             THEN FoldEdgesReassign(st, net, i, p, edge + 1)
             ELSE LET next_state == rotate(st.state[p], edge)
                  IN  IF st.seen[neighbor]
                      THEN FoldEdgesReassign(
                               [st EXCEPT !.state[neighbor] = next_state],
                               net, i, p, edge + 1)
                      ELSE FoldEdgesReassign(
                               [folded |-> IF next_state.kind = "Standing"
                                           THEN [st.folded EXCEPT
                                                    ![i][next_state.a] =
                                                        neighbor]
                                           ELSE st.folded,
                                seen |-> [st.seen EXCEPT ![neighbor] = TRUE],
                                state |-> [st.state EXCEPT
                                              ![neighbor] = next_state],
                                queue |-> Append(st.queue, neighbor)],
                               net, i, p, edge + 1)

\* Mutant of FoldEdges: the neighbor found is written to the row of the face
\* popped, not to the row of the root.
RECURSIVE FoldEdgesRowOfPopped(_, _, _, _, _)
FoldEdgesRowOfPopped(st, net, i, p, edge) ==
    IF edge >= DirectionCount
    THEN st
    ELSE LET neighbor == net[p][edge]
         IN  IF neighbor = None
             THEN FoldEdgesRowOfPopped(st, net, i, p, edge + 1)
             ELSE IF st.seen[neighbor]
             THEN FoldEdgesRowOfPopped(st, net, i, p, edge + 1)
             ELSE LET next_state == rotate(st.state[p], edge)
                      folded == IF next_state.kind = "Standing"
                                THEN [st.folded EXCEPT
                                         ![p][next_state.a] = neighbor]
                                ELSE st.folded
                  IN  FoldEdgesRowOfPopped(
                          [folded |-> folded,
                           seen |-> [st.seen EXCEPT ![neighbor] = TRUE],
                           state |-> [st.state EXCEPT ![neighbor] = next_state],
                           queue |-> Append(st.queue, neighbor)],
                          net, i, p, edge + 1)

\* The edge loop of one dequeued face: for edge in 0..Direction::COUNT.
\* st holds the folded table and the run's seen, state and queue.
RECURSIVE FoldEdges(_, _, _, _, _)
FoldEdges(st, net, i, p, edge) ==
    IF edge >= DirectionCount
    THEN st
    ELSE LET neighbor == net[p][edge]
         IN  IF neighbor = None
             THEN FoldEdges(st, net, i, p, edge + 1)
             ELSE IF st.seen[neighbor]
             THEN FoldEdges(st, net, i, p, edge + 1)
             ELSE LET next_state == rotate(st.state[p], edge)
                      folded == IF next_state.kind = "Standing"
                                THEN [st.folded EXCEPT
                                         ![i][next_state.a] = neighbor]
                                ELSE st.folded
                  IN  FoldEdges(
                          [folded |-> folded,
                           seen |-> [st.seen EXCEPT ![neighbor] = TRUE],
                           state |-> [st.state EXCEPT ![neighbor] = next_state],
                           queue |-> Append(st.queue, neighbor)],
                          net, i, p, edge + 1)

\* The first (face, direction) pair, in loop order, without a neighbor among
\* the pairs of the first n faces; the loop of the assignment returns its
\* error there.  k counts the pairs.
RECURSIVE FirstMissingFrom(_, _, _)
FirstMissingFrom(folded, k, n) ==
    IF k >= n * DirectionCount
    THEN <<>>
    ELSE LET i == k \div DirectionCount
             d == k % DirectionCount
         IN  IF folded[i][d] = None
             THEN <<d, i>>
             ELSE FirstMissingFrom(folded, k + 1, n)

\* Mutant of FirstMissing: the loop stops one face short.
FirstMissingButLast(folded) == FirstMissingFrom(folded, 0, FaceCount - 1)

\* Mutant of FirstMissing: only the table of face 0 is looked at.
FirstMissingOfFirstFace(folded) == FirstMissingFrom(folded, 0, 1)

\* for i in 0..faces.len() (6 here), for dir in 0..Direction::COUNT
FirstMissing(folded) == FirstMissingFrom(folded, 0, FaceCount)

AssignNeighbors(fs, folded) ==
    [k \in 1 .. Len(fs) |-> [fs[k] EXCEPT !.neighbors = folded[k - 1]]]

----------------------------------------------------------------------------
(* MonkeyCube::get_neighbor *)

\* neighbors.iter().position(|&neighbor| neighbor == face), None if absent
NeighborPosition(neighbors, face) ==
    LET hits == {e \in Directions : neighbors[e] = face}
    IN  IF hits = {}
        THEN None
        ELSE CHOOSE e \in hits : \A f \in hits : e <= f

\* Mutant of get_neighbor: the face entered is taken to be entered by the
\* edge opposite to the edge left, as on the flat net.
get_neighbor_opposite(fs, face, edge) ==
    <<fs[face + 1].neighbors[edge], inverse(edge)>>

get_neighbor(fs, face, edge) ==
    LET next_face == fs[face + 1].neighbors[edge]
    IN  <<next_face, NeighborPosition(fs[next_face + 1].neighbors, face)>>

----------------------------------------------------------------------------
(* One unit step of MonkeyMap::follow *)

\* Mutant of FlatTarget: a step off the top or bottom always wraps within
\* the current block.
FlatTargetSameBlock(bs, index, pos, d) ==
    LET current_block == bs[index + 1]
        next == PointAdd(pos, delta(d))
        next_x == IF next.x < current_block.min.x
                  THEN current_block.max.x
                  ELSE IF next.x > current_block.max.x
                  THEN current_block.min.x
                  ELSE next.x
        next_y == IF next.y < current_block.min.y
                  THEN current_block.max.y
                  ELSE IF next.y > current_block.max.y
                  THEN current_block.min.y
                  ELSE next.y
    IN  [index |-> index, next |-> Point(next_x, next_y)]

\* The block index and the target cell the step decides on, before the wall
\* check.
FlatTarget(bs, index, pos, d) ==
    LET current_block == bs[index + 1]
        next == PointAdd(pos, delta(d))
        next_x == IF next.x < current_block.min.x
                  THEN current_block.max.x
                  ELSE IF next.x > current_block.max.x
                  THEN current_block.min.x
                  ELSE next.x
    IN  IF next.y < current_block.min.y
        THEN LET previous_block_index ==
                     IF index = 0 THEN Len(bs) - 1 ELSE index - 1
                 previous_block == bs[previous_block_index + 1]
                 new_index ==
                     IF /\ previous_block.min.x <= pos.x
                        /\ pos.x <= previous_block.max.x
                     THEN previous_block_index
                     ELSE index
             IN  [index |-> new_index,
                  next |-> Point(next_x, bs[new_index + 1].max.y)]
        ELSE IF next.y > current_block.max.y
        THEN LET next_block_index ==
                     IF index + 1 >= Len(bs) THEN 0 ELSE index + 1
                 next_block == bs[next_block_index + 1]
                 new_index ==
                     IF /\ next_block.min.x <= pos.x
                        /\ pos.x <= next_block.max.x
                     THEN next_block_index
                     ELSE index
             IN  [index |-> new_index,
                  next |-> Point(next_x, bs[new_index + 1].min.y)]
        ELSE [index |-> index, next |-> Point(next_x, next.y)]

\* Mutant of FlatBlocked: the walls are looked up in the first block.
FlatBlockedInFirstBlock(bs, t) == t.next \in bs[1].walls

\* The wall check against the walls of the last block only.
FlatBlockedInLastBlock(bs, t) == t.next \in bs[Len(bs)].walls

\* if current_block.walls.contains(&next) { break; }
FlatBlocked(bs, t) == t.next \in bs[t.index + 1].walls

----------------------------------------------------------------------------
(* One unit step of MonkeyCube::follow *)

\* Mutant of WrappedEdge: the far edges are one cell further out.
WrappedEdgeOffByOne(fl, next_position) ==
    IF next_position.x < 0 THEN Left
    ELSE IF next_position.x > fl THEN Right
    ELSE IF next_position.y < 0 THEN Up
    ELSE IF next_position.y > fl THEN Down
    ELSE None

\* The edge the step leaves the face by, or None for a same-face move.
WrappedEdge(fl, next_position) ==
    IF next_position.x < 0 THEN Left
    ELSE IF next_position.x >= fl THEN Right
    ELSE IF next_position.y < 0 THEN Up
    ELSE IF next_position.y >= fl THEN Down
    ELSE None

\* Mutant of CrossTo: the face is entered on the far side of the edge.
CrossToFarEdge(fl, pos, d, on_edge) ==
    LET next_dir == inverse(on_edge)
        r == difference(d, next_dir)
        next_x == CASE on_edge = Right -> 0
                    [] on_edge = Left -> fl - 1
                    [] OTHER ->
                        CASE r = Zero -> pos.x
                          [] r = Ninety -> pos.y
                          [] r = OneEighty -> fl - pos.x - 1
                          [] r = TwoSeventy -> fl - pos.y - 1
        next_y == CASE on_edge = Down -> 0
                    [] on_edge = Up -> fl - 1
                    [] OTHER ->
                        CASE r = Zero -> pos.y
                          [] r = Ninety -> fl - pos.x - 1
                          [] r = OneEighty -> fl - pos.y - 1
                          [] r = TwoSeventy -> pos.x
    IN  Point(next_x, next_y)

\* Mutant of CrossTo: a quarter turn onto a side edge does not reverse the
\* coordinate.
CrossToQuarterTurnKept(fl, pos, d, on_edge) ==
    LET next_dir == inverse(on_edge)
        r == difference(d, next_dir)
        next_x == CASE on_edge = Right -> fl - 1
                    [] on_edge = Left -> 0
                    [] OTHER ->
                        CASE r = Zero -> pos.x
                          [] r = Ninety -> pos.y
                          [] r = OneEighty -> fl - pos.x - 1
                          [] r = TwoSeventy -> fl - pos.y - 1
        next_y == CASE on_edge = Down -> fl - 1
                    [] on_edge = Up -> 0
                    [] OTHER ->
                        CASE r = Zero -> pos.y
                          [] r = Ninety -> pos.x
                          [] r = OneEighty -> fl - pos.y - 1
                          [] r = TwoSeventy -> pos.x
    IN  Point(next_x, next_y)

\* Mutant of CrossTo: a half turn keeps the coordinate.
CrossToHalfTurnKept(fl, pos, d, on_edge) ==
    LET next_dir == inverse(on_edge)
        r == difference(d, next_dir)
        next_x == CASE on_edge = Right -> fl - 1
                    [] on_edge = Left -> 0
                    [] OTHER ->
                        CASE r = Zero -> pos.x
                          [] r = Ninety -> pos.y
                          [] r = OneEighty -> pos.x
                          [] r = TwoSeventy -> fl - pos.y - 1
        next_y == CASE on_edge = Down -> fl - 1
                    [] on_edge = Up -> 0
                    [] OTHER ->
                        CASE r = Zero -> pos.y
                          [] r = Ninety -> fl - pos.x - 1
                          [] r = OneEighty -> pos.y
                          [] r = TwoSeventy -> pos.x
    IN  Point(next_x, next_y)

\* Mutant of CrossTo: the quarter turns of the remapped row are exchanged.
CrossToExchanged(fl, pos, d, on_edge) ==
    LET next_dir == inverse(on_edge)
        r == difference(d, next_dir)
        next_x == CASE on_edge = Right -> fl - 1
                    [] on_edge = Left -> 0
                    [] OTHER ->
                        CASE r = Zero -> pos.x
                          [] r = Ninety -> pos.y
                          [] r = OneEighty -> fl - pos.x - 1
                          [] r = TwoSeventy -> fl - pos.y - 1
        next_y == CASE on_edge = Down -> fl - 1
                    [] on_edge = Up -> 0
                    [] OTHER ->
                        CASE r = Zero -> pos.y
                          [] r = Ninety -> pos.x
                          [] r = OneEighty -> fl - pos.y - 1
                          [] r = TwoSeventy -> fl - pos.x - 1
    IN  Point(next_x, next_y)

\* The local position on the entered face.
CrossTo(fl, pos, d, on_edge) ==
    LET next_dir == inverse(on_edge)
        r == difference(d, next_dir)
        next_x == CASE on_edge = Right -> fl - 1
                    [] on_edge = Left -> 0
                    [] OTHER ->
                        CASE r = Zero -> pos.x
                          [] r = Ninety -> pos.y
                          [] r = OneEighty -> fl - pos.x - 1
                          [] r = TwoSeventy -> fl - pos.y - 1
        next_y == CASE on_edge = Down -> fl - 1
                    [] on_edge = Up -> 0
                    [] OTHER ->
                        CASE r = Zero -> pos.y
                          [] r = Ninety -> fl - pos.x - 1
                          [] r = OneEighty -> fl - pos.y - 1
                          [] r = TwoSeventy -> pos.x
    IN  Point(next_x, next_y)

\* (next_face, next_position, next_dir) of the step, before the wall check;
\* panic is TRUE when get_neighbor unwraps None.
CubeTarget(fs, fl, face, pos, d) ==
    LET next_position == PointAdd(pos, delta(d))
        edge == WrappedEdge(fl, next_position)
    IN  IF edge = None
        THEN [panic |-> FALSE, crossed |-> FALSE, face |-> face,
              position |-> next_position, dir |-> d]
        ELSE LET wrapped == get_neighbor(fs, face, edge)
             IN  IF wrapped[2] = None
                 THEN [panic |-> TRUE, crossed |-> TRUE, face |-> face,
                       position |-> pos, dir |-> d]
                 ELSE [panic |-> FALSE,
                       crossed |-> TRUE,
                       face |-> wrapped[1],
                       position |-> CrossTo(fl, pos, d, wrapped[2]),
                       dir |-> inverse(wrapped[2])]

\* Mutant of CubeBlocked: the local position is looked up as an absolute one.
CubeBlockedAbsolute(fs, t) ==
    PointAdd(t.position, fs[t.face + 1].min) \in fs[t.face + 1].walls

\* The wall check against the walls of face 0 only.
CubeBlockedInFirstFace(fs, t) == t.position \in fs[1].walls

\* if self.faces[next_face].walls.contains(&next_position) { break; }
CubeBlocked(fs, t) == t.position \in fs[t.face + 1].walls

----------------------------------------------------------------------------
(* final_password *)

\* Mutant of final_password: the column counts for 1000 and the row for 4.
final_password_transposed(pos, d) ==
    LET password == 1000 * (pos.x + 1) + 4 * (pos.y + 1) + d
    IN  IF password < 0
        THEN <<"Err", "out of range integral type conversion attempted">>
        ELSE <<"Ok", password>>

final_password(pos, d) ==
    LET password == 1000 * (pos.y + 1) + 4 * (pos.x + 1) + d
    IN  IF password < 0
        THEN <<"Err", "out of range integral type conversion attempted">>
        ELSE <<"Ok", password>>

----------------------------------------------------------------------------
(* solve_a and solve_b as a state machine *)

Running == <<"Running">>

\* The locals of a MonkeyMap::follow that has not been called: started is
\* FALSE.  exited records that a unit step of either walk has tried to leave
\* face 0.
NoFlatWalk ==
    [started |-> FALSE,
     current_block_index |-> 0,
     position |-> Point(0, 0),
     dir |-> Right,
     remaining |-> 0,
     exited |-> FALSE]

InitOf(input) ==
    /\ lines = input.lines
    /\ instructions = input.instructions
    /\ part = input.part
    /\ pc = "parse"
    /\ blocks = <<>>
    /\ face_length = 0
    /\ faces = <<>>
    /\ cube_net = EmptyNet
    /\ folded_cube_net = EmptyNet
    /\ root = 0
    /\ queue = <<>>
    /\ seen = [i \in FaceIndexes |-> FALSE]
    /\ state = [i \in FaceIndexes |-> DefaultRotatingCubeFace]
    /\ popped = <<>>
    /\ current_block_index = 0
    /\ current_face = 0
    /\ position = Point(0, 0)
    /\ dir = Right
    /\ ip = 0
    /\ remaining = 0
    /\ last_step = "none"
    /\ result = Running
    /\ cube_face = DefaultRotatingCubeFace
    /\ calls = <<>>
    /\ runs = <<>>
    /\ flat_walk = NoFlatWalk

\* parse_map_and_instructions: MonkeyMap::from_str(map)
ParseMap ==
    /\ pc = "parse"
    /\ blocks' = from_str(lines)
    /\ pc' = IF part = "a" THEN "flat_follow" ELSE "try_from"
    /\ UNCHANGED <<inputVars, callVars, cubeVars, foldVars, current_block_index,
                   current_face, position, dir, ip, remaining, last_step,
                   result>>

\* MonkeyMap::follow up to its instruction loop
FlatFollow ==
    /\ pc = "flat_follow"
    /\ IF blocks = <<>>
       THEN /\ result' = <<"Err", "map is empty">>
            /\ pc' = "done"
            /\ UNCHANGED <<current_block_index, position, dir>>
       ELSE /\ current_block_index' = 0
            /\ position' = blocks[1].min
            /\ dir' = Right
            /\ pc' = "flat_loop"
            /\ UNCHANGED result
    /\ UNCHANGED <<inputVars, callVars,
                   blocks, cubeVars, foldVars, current_face, ip,
                   remaining, last_step>>

\* Mutant of Execute: a rotation goes on to take a unit step.
ExecuteTurnAndStep(instruction) ==
    /\ dir' = CASE instruction.op = "RotateLeft" -> rotate_left(dir)
                [] instruction.op = "RotateRight" -> rotate_right(dir)
                [] OTHER -> dir
    /\ remaining' = IF instruction.op = "Move" THEN instruction.n ELSE 1
    /\ last_step' = CASE instruction.op = "RotateLeft" -> "turned_left"
                      [] instruction.op = "RotateRight" -> "turned_right"
                      [] instruction.n = 0 -> "stayed"
                      [] OTHER -> "started"
    /\ UNCHANGED <<pc, result>>

\* Mutant of Execute: the loop of a Move runs over 0..=n.
ExecuteInclusive(instruction) ==
    /\ dir' = CASE instruction.op = "RotateLeft" -> rotate_left(dir)
                [] instruction.op = "RotateRight" -> rotate_right(dir)
                [] OTHER -> dir
    /\ remaining' = IF instruction.op = "Move" THEN instruction.n + 1 ELSE 0
    /\ last_step' = CASE instruction.op = "RotateLeft" -> "turned_left"
                      [] instruction.op = "RotateRight" -> "turned_right"
                      [] instruction.n = 0 -> "stayed"
                      [] OTHER -> "started"
    /\ UNCHANGED <<pc, result>>

\* The match on one instruction, shared by both follow functions: a rotation
\* turns dir, a Move(n) starts its loop of n unit steps.
Execute(instruction) ==
    /\ dir' = CASE instruction.op = "RotateLeft" -> rotate_left(dir)
                [] instruction.op = "RotateRight" -> rotate_right(dir)
                [] OTHER -> dir
    /\ remaining' = IF instruction.op = "Move" THEN instruction.n ELSE 0
    /\ last_step' = CASE instruction.op = "RotateLeft" -> "turned_left"
                      [] instruction.op = "RotateRight" -> "turned_right"
                      [] instruction.n = 0 -> "stayed"
                      [] OTHER -> "started"
    /\ UNCHANGED <<pc, result>>

\* After the last instruction follow returns Ok((final, dir)), and
\* final_password is computed from it.
Return(final) ==
    /\ result' = final_password(final, dir)
    /\ pc' = "done"
    /\ UNCHANGED <<dir, remaining, last_step>>

\* One turn of the loop over the instructions given.
NextInstruction(final) ==
    /\ remaining = 0
    /\ IF ip >= Len(instructions)
       THEN Return(final) /\ UNCHANGED ip
       ELSE Execute(instructions[ip + 1]) /\ ip' = ip + 1

\* MonkeyMap::follow: one turn of the loop over the instructions
FlatInstruction ==
    /\ pc = "flat_loop"
    /\ NextInstruction(position)
    /\ UNCHANGED <<inputVars, callVars, blocks, cubeVars, foldVars,
                   current_block_index, current_face, position>>

\* Mutant of FlatStep: a wall ends the walk instead of the Move.
FlatStepReturnsAtWall ==
    /\ pc = "flat_loop"
    /\ remaining > 0
    /\ LET t == FlatTarget(blocks, current_block_index, position, dir)
       IN  /\ current_block_index' = t.index
           /\ IF FlatBlocked(blocks, t)
              THEN /\ remaining' = 0
                   /\ last_step' = "blocked"
                   /\ result' = final_password(position, dir)
                   /\ pc' = "done"
                   /\ UNCHANGED position
              ELSE /\ position' = t.next
                   /\ remaining' = remaining - 1
                   /\ last_step' = "moved"
                   /\ UNCHANGED <<pc, result>>
    /\ UNCHANGED <<inputVars, callVars,
                   blocks, cubeVars, foldVars, current_face,
                   dir, ip>>

\* MonkeyMap::follow: one turn of the loop 0..n of a Move
FlatStep ==
    /\ pc = "flat_loop"
    /\ remaining > 0
    /\ LET t == FlatTarget(blocks, current_block_index, position, dir)
       IN  /\ current_block_index' = t.index
           /\ IF FlatBlocked(blocks, t)
              THEN /\ remaining' = 0
                   /\ last_step' = "blocked"
                   /\ UNCHANGED position
              ELSE /\ position' = t.next
                   /\ remaining' = remaining - 1
                   /\ last_step' = "moved"
    /\ UNCHANGED <<inputVars, callVars,
                   pc, blocks, cubeVars, foldVars, current_face,
                   dir, ip, result>>

\* MonkeyCube::try_from: the face length, the faces and the face count check
Extract ==
    /\ pc = "try_from"
    /\ IF blocks = <<>>
       THEN /\ result' = <<"Panic", "called Option::unwrap() on a None value">>
            /\ pc' = "done"
            /\ UNCHANGED <<face_length, faces>>
       ELSE LET fl == cube_face_length(blocks)
                fs == ExtractFaces(blocks, fl)
            IN  /\ face_length' = fl
                /\ faces' = fs
                /\ IF Len(fs) # FaceCount
                   THEN /\ result' = <<"Err", "expected 6 faces, found", Len(fs)>>
                        /\ pc' = "done"
                   ELSE /\ pc' = "build_net"
                        /\ UNCHANGED result
    /\ UNCHANGED <<inputVars, callVars,
                   blocks, cube_net, folded_cube_net, foldVars,
                   current_block_index, current_face, position, dir, ip,
                   remaining, last_step>>

\* MonkeyCube::try_from: the flat cube net
NetAdjacency ==
    /\ pc = "build_net"
    /\ cube_net' = BuildNet(faces)
    /\ folded_cube_net' = cube_net'
    /\ root' = 0
    /\ pc' = "fold_root"
    /\ UNCHANGED <<inputVars, callVars,
                   blocks, face_length, faces, queue, seen, state,
                   popped,
                   current_block_index, current_face, position, dir, ip,
                   remaining, last_step, result>>

\* MonkeyCube::try_from: the head of the loop over the roots
FoldRoot ==
    /\ pc = "fold_root"
    /\ IF root < Len(faces)
       THEN /\ queue' = <<root>>
            /\ seen' = [i \in FaceIndexes |-> i = root]
            /\ state' = [i \in FaceIndexes |->
                            IF i = root
                            THEN Flat(FaceUp, Zero)
                            ELSE DefaultRotatingCubeFace]
            /\ popped' = <<>>
            /\ pc' = "fold_queue"
       ELSE /\ pc' = "assign"
            /\ UNCHANGED <<queue, seen, state, popped>>
    /\ UNCHANGED <<inputVars, callVars,
                   blocks, cubeVars, root, current_block_index,
                   current_face, position, dir, ip, remaining, last_step,
                   result>>

\* MonkeyCube::try_from: queue.pop_front() and the loop over the edges
FoldPop ==
    /\ pc = "fold_queue"
    /\ IF queue = <<>>
       THEN /\ root' = root + 1
            /\ pc' = "fold_root"
            /\ UNCHANGED <<folded_cube_net, queue, seen, state, popped>>
       ELSE LET st == FoldEdges([folded |-> folded_cube_net,
                                 seen |-> seen,
                                 state |-> state,
                                 queue |-> Tail(queue)],
                                cube_net, root, Head(queue), 0)
            IN  /\ folded_cube_net' = st.folded
                /\ seen' = st.seen
                /\ state' = st.state
                /\ queue' = st.queue
                /\ popped' = Append(popped, Head(queue))
                /\ UNCHANGED <<root, pc>>
    /\ UNCHANGED <<inputVars, callVars, blocks, face_length, faces, cube_net,
                   current_block_index, current_face, position, dir, ip,
                   remaining, last_step, result>>

\* MonkeyCube::try_from: the neighbors of each face, or the error; then
\* MonkeyCube::follow up to its instruction loop
Assign ==
    /\ pc = "assign"
    /\ LET missing == FirstMissing(folded_cube_net)
       IN  IF missing # <<>>
           THEN /\ result' = <<"Err", "missing neighbor on edge for face",
                               missing[1], missing[2]>>
                /\ pc' = "done"
                /\ UNCHANGED <<faces, current_face, position, dir>>
           ELSE /\ faces' = AssignNeighbors(faces, folded_cube_net)
                /\ current_face' = 0
                /\ position' = Point(0, 0)
                /\ dir' = Right
                /\ pc' = "cube_loop"
                /\ UNCHANGED result
    /\ UNCHANGED <<inputVars, callVars,
                   blocks, face_length, cube_net, folded_cube_net,
                   foldVars, current_block_index, ip, remaining, last_step>>

\* MonkeyCube::follow: one turn of the loop over the instructions
CubeInstruction ==
    /\ pc = "cube_loop"
    /\ NextInstruction(PointAdd(position, faces[current_face + 1].min))
    /\ UNCHANGED <<inputVars, callVars, blocks, cubeVars, foldVars,
                   current_block_index, current_face, position>>

\* MonkeyCube::follow: one turn of the loop 0..n of a Move
CubeStep ==
    /\ pc = "cube_loop"
    /\ remaining > 0
    /\ LET t == CubeTarget(faces, face_length, current_face, position, dir)
       IN  IF t.panic
           THEN /\ result' = <<"Panic", "called Option::unwrap() on a None value">>
                /\ pc' = "done"
                /\ UNCHANGED <<current_face, position, dir, remaining,
                               last_step>>
           ELSE IF CubeBlocked(faces, t)
           THEN /\ remaining' = 0
                /\ last_step' = "blocked"
                /\ UNCHANGED <<current_face, position, dir, pc, result>>
           ELSE /\ current_face' = t.face
                /\ position' = t.position
                /\ dir' = t.dir
                /\ remaining' = remaining - 1
                /\ last_step' = IF t.crossed THEN "crossed" ELSE "moved"
                /\ UNCHANGED <<pc, result>>
    /\ UNCHANGED <<inputVars, callVars, blocks, cubeVars, foldVars,
                   current_block_index, ip>>

Next ==
    \/ ParseMap
    \/ FlatFollow
    \/ FlatInstruction
    \/ FlatStep
    \/ Extract
    \/ NetAdjacency
    \/ FoldRoot
    \/ FoldPop
    \/ Assign
    \/ CubeInstruction
    \/ CubeStep

\* The loops over the instructions when the instructions are not given but
\* arrive one at a time, each any of a set, for any length of time.
AnyInstruction(choices, final) ==
    /\ remaining = 0
    /\ UNCHANGED ip
    /\ \/ \E instruction \in choices : Execute(instruction)
       \/ Return(final)

----------------------------------------------------------------------------
(* Inputs *)

Parts == {"a", "b"}

Line(lo, hi, walls) == [lo |-> lo, hi |-> hi, walls |-> walls]

\* The example map of the puzzle: face length 4, faces at block positions
\* (2,0), (0,1), (1,1), (2,1), (2,2), (3,2).
ExampleLines ==
    << Line(8, 11, {11}), Line(8, 11, {9}), Line(8, 11, {8}), Line(8, 11, {}),
       Line(0, 11, {3, 11}), Line(0, 11, {8}), Line(0, 11, {2, 7}),
       Line(0, 11, {10}),
       Line(8, 15, {11}), Line(8, 15, {13}), Line(8, 15, {9}),
       Line(8, 15, {14}) >>

\* 10R5L5R10L4R5L5
ExampleInstructions ==
    << Move(10), RotateRight, Move(5), RotateLeft, Move(5), RotateRight,
       Move(10), RotateLeft, Move(4), RotateRight, Move(5), RotateLeft,
       Move(5) >>

ExampleInputs ==
    {[lines |-> ExampleLines, instructions |-> ExampleInstructions,
      part |-> p] : p \in Parts}

InitExample == \E input \in ExampleInputs : InitOf(input)

SpecExample == InitExample /\ [][Next]_vars

----------------------------------------------------------------------------
(* Cube nets as inputs *)

\* The 11 cube nets, as sets of <<column, row>> cells of unit faces.
BaseCubeNets ==
    { {<<0, 0>>, <<0, 1>>, <<1, 1>>, <<2, 1>>, <<3, 1>>, <<0, 2>>},
      {<<0, 0>>, <<0, 1>>, <<1, 1>>, <<2, 1>>, <<3, 1>>, <<1, 2>>},
      {<<0, 0>>, <<0, 1>>, <<1, 1>>, <<2, 1>>, <<3, 1>>, <<2, 2>>},
      {<<0, 0>>, <<0, 1>>, <<1, 1>>, <<2, 1>>, <<3, 1>>, <<3, 2>>},
      {<<1, 0>>, <<0, 1>>, <<1, 1>>, <<2, 1>>, <<3, 1>>, <<1, 2>>},
      {<<1, 0>>, <<0, 1>>, <<1, 1>>, <<2, 1>>, <<3, 1>>, <<2, 2>>},
      {<<0, 0>>, <<1, 0>>, <<1, 1>>, <<2, 1>>, <<3, 1>>, <<1, 2>>},
      {<<0, 0>>, <<1, 0>>, <<1, 1>>, <<2, 1>>, <<3, 1>>, <<2, 2>>},
      {<<0, 0>>, <<1, 0>>, <<1, 1>>, <<2, 1>>, <<3, 1>>, <<3, 2>>},
      {<<0, 0>>, <<1, 0>>, <<1, 1>>, <<2, 1>>, <<2, 2>>, <<3, 2>>},
      {<<0, 0>>, <<1, 0>>, <<2, 0>>, <<2, 1>>, <<3, 1>>, <<4, 1>>} }

SetMin(S) == CHOOSE m \in S : \A v \in S : m <= v

SetMax(S) == CHOOSE m \in S : \A v \in S : v <= m

Normalise(cells) ==
    LET x0 == SetMin({c[1] : c \in cells})
        y0 == SetMin({c[2] : c \in cells})
    IN  {<<c[1] - x0, c[2] - y0>> : c \in cells}

\* A quarter turn, k times, after a reflection when flip is TRUE.
RECURSIVE TurnCell(_, _)
TurnCell(c, k) == IF k = 0 THEN c ELSE TurnCell(<<-c[2], c[1]>>, k - 1)

Oriented(cells, k, flip) ==
    Normalise({TurnCell(IF flip THEN <<-c[1], c[2]>> ELSE c, k) : c \in cells})

\* Every cube net in every rotation and reflection.
CubeNets ==
    {Oriented(n, k, flip) : n \in BaseCubeNets, k \in Directions,
                            flip \in BOOLEAN}

\* The text of a layout of faces of length fl without walls: the faces of
\* row r of the layout are shifted right by shear[r] columns.
LayoutLines(cells, fl, shear) ==
    LET rows == 1 + SetMax({c[2] : c \in cells})
    IN  [k \in 1 .. (rows * fl) |->
            LET r == (k - 1) \div fl
                xs == {c[1] : c \in {e \in cells : e[2] = r}}
            IN  Line(fl * SetMin(xs) + shear[r],
                     fl * (SetMax(xs) + 1) - 1 + shear[r], {})]

NoShear == [r \in 0 .. (FaceCount - 1) |-> 0]

MaxFaceLen == 2

NetLines(cells, fl) == LayoutLines(cells, fl, NoShear)

NetTexts == {NetLines(n, fl) : n \in CubeNets, fl \in 1 .. MaxFaceLen}

NetWalks ==
    { <<RotateRight, Move(1)>>, <<Move(2), RotateLeft, Move(1)>> }

NetInputs ==
    {[lines |-> t, instructions |-> w, part |-> p] :
        t \in NetTexts, w \in NetWalks, p \in Parts}

InitNets == \E input \in NetInputs : InitOf(input)

SpecNets == InitNets /\ [][Next]_vars

\* The bounds of the text lines, without the walls.
Outline(ls) == [k \in DOMAIN ls |-> <<ls[k].lo, ls[k].hi>>]

NetOutlines == {Outline(t) : t \in NetTexts}

\* The text is that of a cube net (of faces of a length up to MaxFaceLen).
IsCubeNetText(ls) == Outline(ls) \in NetOutlines

----------------------------------------------------------------------------
(* A reference fold: rolling a cube over the net *)

Neg(v) == <<-v[1], -v[2], -v[3]>>

\* The frame of a face: outward normal, and the 3D directions of its right
\* and down edges.  Rolling over edge d gives the frame of the next face.
Roll(f, d) ==
    CASE d = Right -> [n |-> f.r, r |-> Neg(f.n), d |-> f.d]
      [] d = Left  -> [n |-> Neg(f.r), r |-> f.n, d |-> f.d]
      [] d = Down  -> [n |-> f.d, r |-> f.r, d |-> Neg(f.n)]
      [] d = Up    -> [n |-> Neg(f.d), r |-> f.r, d |-> f.n]

CellStep(c, d) == <<c[1] + delta(d).x, c[2] + delta(d).y>>

RECURSIVE RollOver(_, _, _)
RollOver(cells, frames, k) ==
    IF k = 0
    THEN frames
    ELSE LET have == DOMAIN frames
             new == {c \in cells \ have :
                        \E d \in Directions : CellStep(c, inverse(d)) \in have}
             from(c) == CHOOSE d \in Directions :
                            CellStep(c, inverse(d)) \in have
         IN  RollOver(cells,
                      [c \in have \cup new |->
                          IF c \in have
                          THEN frames[c]
                          ELSE Roll(frames[CellStep(c, inverse(from(c)))],
                                    from(c))],
                      k - 1)

Frames(cells) ==
    LET c0 == CHOOSE c \in cells : TRUE
    IN  RollOver(cells,
                 (c0 :> [n |-> <<0, 0, 1>>, r |-> <<1, 0, 0>>, d |-> <<0, 1, 0>>]),
                 Cardinality(cells))

\* The 3D direction of edge d of a face with frame f.
EdgeVector(f, d) ==
    CASE d = Right -> f.r
      [] d = Down  -> f.d
      [] d = Left  -> Neg(f.r)
      [] d = Up    -> Neg(f.d)

\* The cell of the face that shares edge d of cell c on the folded cube.
CubeNeighbor(cells, c, d) ==
    LET fr == Frames(cells)
    IN  CHOOSE e \in cells : fr[e].n = EdgeVector(fr[c], d)

\* The cells of the faces extracted, in units of the face length.
FaceCell(i) == <<faces[i + 1].min.x \div face_length,
                 faces[i + 1].min.y \div face_length>>

FaceCells == {FaceCell(i) : i \in FaceIndexes}

\* The true cube adjacency of the faces extracted, as a neighbor table.
CubeAdjacency ==
    [i \in FaceIndexes |-> [d \in Directions |->
        CHOOSE j \in FaceIndexes :
            FaceCell(j) = CubeNeighbor(FaceCells, FaceCell(i), d)]]

----------------------------------------------------------------------------
(* Arbitrary layouts and texts as inputs *)

\* Every connected layout of k + 1 unit faces (the fixed polyominoes).
RECURSIVE Grow(_, _)
Grow(shapes, k) ==
    IF k = 0
    THEN shapes
    ELSE Grow(UNION {{Normalise(s \cup {CellStep(c, d)}) :
                         c \in s, d \in Directions} : s \in shapes},
              k - 1)

\* Every face of a row of the layout has its row neighbours up to the last.
RowConvex(cells) ==
    \A c \in cells, e \in cells :
        (c[2] = e[2] /\ c[1] < e[1]) => <<c[1] + 1, c[2]>> \in cells

\* The connected layouts of 6 faces a text can show.
Layouts == {s \in Grow({{<<0, 0>>}}, FaceCount - 1) : RowConvex(s)}

LayoutRows(cells) == 1 + SetMax({c[2] : c \in cells})

\* The texts of a layout for every face length and every shift of its rows
\* by less than a face.
TextsOfLayout(cells) ==
    UNION {{LayoutLines(cells, fl, sh) :
               sh \in [0 .. (LayoutRows(cells) - 1) -> 0 .. (fl - 1)]} :
           fl \in 1 .. MaxFaceLen}

LayoutTexts == UNION {TextsOfLayout(s) : s \in Layouts}

MaxTextLines == 3

\* Short texts of ragged lines, the empty text among them.
RaggedTexts ==
    UNION {[1 .. n -> {Line(lo, hi, {}) : lo \in 0 .. 1, hi \in 1 .. 3}] :
           n \in 0 .. MaxTextLines}

LayoutInputs ==
    {[lines |-> t, instructions |-> w, part |-> p] :
        t \in LayoutTexts \cup RaggedTexts, w \in NetWalks, p \in Parts}

InitLayouts == \E input \in LayoutInputs : InitOf(input)

SpecLayouts == InitLayouts /\ [][Next]_vars

----------------------------------------------------------------------------
(* Walks of any length over cube nets with walls *)

\* The shape of the example map and the shape of the puzzle inputs.
NavNets ==
    { {<<2, 0>>, <<0, 1>>, <<1, 1>>, <<2, 1>>, <<2, 2>>, <<3, 2>>},
      {<<1, 0>>, <<2, 0>>, <<1, 1>>, <<0, 2>>, <<1, 2>>, <<0, 3>>} }

\* The text with a '#' at column x of line y.
WithWall(ls, x, y) == [ls EXCEPT ![y + 1].walls = @ \cup {x}]

\* The cells of the text.
TextCells(ls) ==
    UNION {{<<x, k - 1>> : x \in ls[k].lo .. ls[k].hi} : k \in DOMAIN ls}

\* The texts of the nets with no wall or one wall, anywhere, and the empty
\* text.
NavTexts ==
    {<<>>} \cup
    UNION {LET t == NetLines(n, MaxFaceLen)
           IN  {t} \cup {WithWall(t, c[1], c[2]) : c \in TextCells(t)} :
           n \in NavNets}

MaxMove == 2

NavInstructions ==
    {RotateLeft, RotateRight} \cup {Move(n) : n \in 0 .. MaxMove}

NavInputs ==
    {[lines |-> t, instructions |-> <<>>, part |-> p] :
        t \in NavTexts, p \in Parts}

\* MonkeyMap::follow: one turn of the loop over instructions of any length
FlatAnyInstruction ==
    /\ pc = "flat_loop"
    /\ AnyInstruction(NavInstructions, position)
    /\ UNCHANGED <<inputVars, callVars, blocks, cubeVars, foldVars,
                   current_block_index, current_face, position>>

\* MonkeyCube::follow: one turn of the loop over instructions of any length
CubeAnyInstruction ==
    /\ pc = "cube_loop"
    /\ AnyInstruction(NavInstructions,
                      PointAdd(position, faces[current_face + 1].min))
    /\ UNCHANGED <<inputVars, callVars, blocks, cubeVars, foldVars,
                   current_block_index, current_face, position>>

InitNav == \E input \in NavInputs : InitOf(input)

NextNav ==
    \/ ParseMap
    \/ FlatFollow
    \/ FlatAnyInstruction
    \/ FlatStep
    \/ Extract
    \/ NetAdjacency
    \/ FoldRoot
    \/ FoldPop
    \/ Assign
    \/ CubeAnyInstruction
    \/ CubeStep

SpecNav == InitNav /\ [][NextNav]_vars

\* The text has a '#' at the point.
IsWall(p) ==
    /\ p.y + 1 \in DOMAIN lines
    /\ p.x \in lines[p.y + 1].walls

----------------------------------------------------------------------------
(* Properties of the folded cube *)

\* The neighbor table of the cube built.
NeighborTable == [i \in FaceIndexes |-> faces[i + 1].neighbors]

\* MonkeyCube::try_from returned Ok: follow is running on the cube.
CubeBuilt == pc = "cube_loop"

\* C1: for every cube net, the neighbor table of the cube built is closed
\* under inversion (a face is a neighbor of each of its neighbors), and
\* get_neighbor is mutually consistent: get_neighbor(i, d) = (j, e) implies
\* get_neighbor(j, e) = (i, d).
C1_ClosedUnderInversion ==
    CubeBuilt =>
        \A i \in FaceIndexes, d \in Directions :
            LET j == NeighborTable[i][d]
                back == get_neighbor(faces, i, d)
            IN  /\ \E e \in Directions : NeighborTable[j][e] = i
                /\ back[1] = j
                /\ back[2] # None
                /\ get_neighbor(faces, back[1], back[2]) = <<i, d>>

\* A cube was built from a cube net, with a face entered by another edge
\* than the one opposite to the edge left.
C1_Witness ==
    /\ CubeBuilt
    /\ IsCubeNetText(lines)
    /\ \E i \in FaceIndexes, d \in Directions :
           get_neighbor(faces, i, d)[2] # inverse(d)

\* C2: for every cube net, the table the folding runs produce is the true
\* adjacency of the folded cube: folded[i][d] is the face that shares edge d
\* of face i.
C2_FoldIsCubeAdjacency ==
    pc = "assign" => folded_cube_net = CubeAdjacency

\* C3: for every cube net, scanned into blocks, exactly 6 faces are
\* extracted.
C3_SixFaces ==
    (part = "b" /\ pc \notin {"parse", "try_from"}) => Len(faces) = FaceCount

\* C4: for every list of blocks, the empty list included, try_from either
\* goes on with exactly 6 faces or returns the error "expected 6 faces,
\* found N" with N the number of faces extracted; it ends in no other way.
C4_SixFacesOrNamedError ==
    (part = "b" /\ pc \notin {"parse", "try_from"}) =>
        \/ Len(faces) = FaceCount
        \/ /\ Len(faces) # FaceCount
           /\ pc = "done"
           /\ result = <<"Err", "expected 6 faces, found", Len(faces)>>

\* The (face, direction) pairs the folding runs left without a neighbor.
Unset ==
    {q \in FaceIndexes \X Directions : folded_cube_net[q[1]][q[2]] = None}

\* The assignment loop of try_from is over.
Assigned == root = FaceCount /\ pc \in {"cube_loop", "done"}

\* C5: after the six folding runs, if a folded[i][d] is unset, try_from
\* returns the error that names the direction and the face of the first
\* unset pair in face-then-direction order, and no cube is produced;
\* otherwise every neighbor slot of every face is a face index in 0..5.
C5_MissingNeighborError ==
    Assigned =>
        IF Unset # {}
        THEN /\ pc = "done"
             /\ \A i \in FaceIndexes, d \in Directions :
                    NeighborTable[i][d] = None
             /\ \E q \in Unset :
                    /\ \A o \in Unset :
                           q[1] < o[1] \/ (q[1] = o[1] /\ q[2] <= o[2])
                    /\ result = <<"Err", "missing neighbor on edge for face",
                                  q[2], q[1]>>
        ELSE /\ result[1] # "Err"
             /\ \A i \in FaceIndexes, d \in Directions :
                    NeighborTable[i][d] \in FaceIndexes

\* The folding runs of a cube net left a slot unset, and the error was
\* returned.
C5_Witness ==
    /\ Assigned
    /\ Unset # {}
    /\ result[1] = "Err"
    /\ IsCubeNetText(lines)

\* C6: a layout of 6 square faces that is not a cube net is never accepted:
\* whenever a cube is built, the text was that of a cube net.
C6_InvalidNetRejected ==
    CubeBuilt => IsCubeNetText(lines)

----------------------------------------------------------------------------
(* The example of the puzzle *)

\* C7: on the example map, the Cube Navigator following 10R5L5R10L4R5L5 ends
\* facing Up with password 5031.
C7_ExampleCubePassword ==
    (pc = "done" /\ part = "b") => (dir = Up /\ result = <<"Ok", 5031>>)

\* solve_b has returned on the example after all 13 instructions.
C7_Witness ==
    /\ pc = "done"
    /\ part = "b"
    /\ lines = ExampleLines
    /\ ip = Len(ExampleInstructions)
    /\ result[1] = "Ok"

\* C8: on the example map, the Flat Navigator following 10R5L5R10L4R5L5
\* yields password 6032.
C8_ExampleFlatPassword ==
    (pc = "done" /\ part = "a") => result = <<"Ok", 6032>>

\* solve_a has returned on the example after all 13 instructions.
C8_Witness ==
    /\ pc = "done"
    /\ part = "a"
    /\ lines = ExampleLines
    /\ ip = Len(ExampleInstructions)
    /\ result[1] = "Ok"

----------------------------------------------------------------------------
(* Walls *)

\* A unit step of a Move in each navigator.
FlatUnitStep == pc = "flat_loop" /\ remaining > 0

CubeUnitStep == pc = "cube_loop" /\ remaining > 0

\* C9: in the flat navigator a Move is applied one unit step at a time and
\* never turns; a unit step whose wrapped target cell is a '#' of the text
\* leaves the position where it is and cancels the units that remain, and any
\* other unit step moves to the target and uses up one unit.
C9_FlatMoveStopsAtWall ==
    [][FlatUnitStep =>
        LET t == FlatTarget(blocks, current_block_index, position, dir).next
        IN  /\ dir' = dir
            /\ pc' = pc
            /\ IF IsWall(t)
               THEN position' = position /\ remaining' = 0
               ELSE position' = t /\ remaining' = remaining - 1]_vars

\* A Move of more than one unit has advanced and then stopped at a wall.
C9_Witness ==
    /\ pc = "flat_loop"
    /\ last_step = "blocked"
    /\ remaining = 0
    /\ position # blocks[1].min
    /\ IsWall(FlatTarget(blocks, current_block_index, position, dir).next)

\* C10: in the cube navigator a unit step across a face edge whose remapped
\* target is a '#' of the entered face changes none of the face, the local
\* position and the facing and discards the units that remain; any other
\* unit step across an edge sets all three to the remapped target.
C10_BlockedCrossingNotCommitted ==
    [][(CubeUnitStep
        /\ WrappedEdge(face_length, PointAdd(position, delta(dir))) # None) =>
        LET t == CubeTarget(faces, face_length, current_face, position, dir)
        IN  IF IsWall(PointAdd(t.position, faces[t.face + 1].min))
            THEN /\ current_face' = current_face
                 /\ position' = position
                 /\ dir' = dir
                 /\ remaining' = 0
            ELSE /\ current_face' = t.face
                 /\ position' = t.position
                 /\ dir' = t.dir
                 /\ remaining' = remaining - 1]_vars

\* A crossing that turns has been refused by a wall with units left over.
C10_Witness ==
    /\ pc = "cube_loop"
    /\ last_step = "blocked"
    /\ LET t == CubeTarget(faces, face_length, current_face, position, dir)
       IN  /\ t.crossed
           /\ t.dir # dir
           /\ IsWall(PointAdd(t.position, faces[t.face + 1].min))

----------------------------------------------------------------------------
(* The walk as a whole *)

\* One of the follow functions is in its loop over the instructions.
Following == pc \in {"flat_loop", "cube_loop"}

\* C11: a wall is never an error.  MonkeyMap::follow returns the error
\* "map is empty" on an empty block list and starts its loop otherwise; a
\* follow function in its loop either goes on or returns Ok; and a unit step
\* cancelled by a wall leaves the loop running at the same instruction, with
\* the position and the facing it had.
C11_WallIsNoError ==
    [][LET entry ==
               pc = "flat_follow" =>
                   IF blocks = <<>>
                   THEN pc' = "done" /\ result' = <<"Err", "map is empty">>
                   ELSE pc' = "flat_loop" /\ result' = Running
           loop ==
               Following =>
                   \/ pc' = pc /\ result' = Running
                   \/ pc' = "done" /\ remaining = 0 /\ result'[1] = "Ok"
           wall ==
               (Following /\ last_step' = "blocked" /\ remaining > 0) =>
                   /\ pc' = pc
                   /\ ip' = ip
                   /\ remaining' = 0
                   /\ position' = position
                   /\ dir' = dir
       IN  entry /\ loop /\ wall]_vars

\* A Move was stopped by a wall, the loop over the instructions went on to
\* its end, and follow returned Ok.
C11_Witness ==
    /\ pc = "done"
    /\ result[1] = "Ok"
    /\ last_step = "blocked"
    /\ IsWall(IF part = "a"
              THEN FlatTarget(blocks, current_block_index, position, dir).next
              ELSE LET t == CubeTarget(faces, face_length, current_face,
                                       position, dir)
                   IN  PointAdd(t.position, faces[t.face + 1].min))

----------------------------------------------------------------------------
(* Wrapping in the flat navigator *)

\* The block MonkeyMap::follow records as current.
CurrentBlock == blocks[current_block_index + 1]

\* C12: in the flat navigator a unit step Left from the left edge of the
\* current block targets its right edge, a unit step Right from its right
\* edge targets its left edge, and a horizontal unit step changes neither
\* the current block index nor the y coordinate.
C12_HorizontalWrap ==
    [][(FlatUnitStep /\ is_horizontal(dir)) =>
        LET x == IF dir = Left /\ position.x = CurrentBlock.min.x
                 THEN CurrentBlock.max.x
                 ELSE IF dir = Right /\ position.x = CurrentBlock.max.x
                 THEN CurrentBlock.min.x
                 ELSE position.x + delta(dir).x
            target == Point(x, position.y)
        IN  /\ current_block_index' = current_block_index
            /\ position'.y = position.y
            /\ position' = IF IsWall(target) THEN position ELSE target]_vars

\* The unit step leaves the rows of the current block by its top or bottom.
OffTop == dir = Up /\ position.y - 1 < CurrentBlock.min.y

OffBottom == dir = Down /\ position.y + 1 > CurrentBlock.max.y

\* The block before and the block after the current one, cyclically.
BlockBefore ==
    IF current_block_index = 0
    THEN Len(blocks) - 1
    ELSE current_block_index - 1

BlockAfter ==
    IF current_block_index = Len(blocks) - 1
    THEN 0
    ELSE current_block_index + 1

\* C13: in the flat navigator a unit step off the top (bottom) of the
\* current block enters the block before (after) it in block order, taken
\* cyclically, on its bottom (top) row at the same x, exactly when the
\* x-range of that block contains the current x; otherwise it wraps to the
\* bottom (top) row of the current block.
C13_VerticalWrap ==
    [][(FlatUnitStep /\ (OffTop \/ OffBottom)) =>
        LET other == IF OffTop THEN BlockBefore ELSE BlockAfter
            enters == /\ blocks[other + 1].min.x <= position.x
                      /\ position.x <= blocks[other + 1].max.x
            index == IF enters THEN other ELSE current_block_index
            target == Point(position.x,
                            IF OffTop
                            THEN blocks[index + 1].max.y
                            ELSE blocks[index + 1].min.y)
        IN  IF IsWall(target)
            THEN position' = position
            ELSE position' = target /\ current_block_index' = index]_vars

----------------------------------------------------------------------------
(* Crossing an edge of the cube *)

\* The edge the unit step leaves the current face by, or None.
LeavingEdge == WrappedEdge(face_length, PointAdd(position, delta(dir)))

\* The unit step crosses an edge and is not stopped by a wall.
CommittedCrossing ==
    /\ CubeUnitStep
    /\ LeavingEdge # None
    /\ last_step' = "crossed"

\* The edge of the entered face the crossing comes in by.
EntryEdge == get_neighbor(faces, current_face, LeavingEdge)[2]

\* C14: a committed crossing of edge e into (nextFace, entryEdge) =
\* get_neighbor(currentFace, e) sets the face to nextFace, the facing to the
\* inverse of entryEdge, and one local coordinate by entryEdge: Left gives
\* x = 0, Right x = faceLength - 1, Up y = 0, Down y = faceLength - 1.
C14_CrossingFacingAndFixedAxis ==
    [][CommittedCrossing =>
        /\ current_face' = get_neighbor(faces, current_face, LeavingEdge)[1]
        /\ dir' = CASE EntryEdge = Left -> Right
                    [] EntryEdge = Right -> Left
                    [] EntryEdge = Up -> Down
                    [] EntryEdge = Down -> Up
        /\ CASE EntryEdge = Left -> position'.x = 0
             [] EntryEdge = Right -> position'.x = face_length - 1
             [] EntryEdge = Up -> position'.y = 0
             [] EntryEdge = Down -> position'.y = face_length - 1]_vars

\* A crossing was committed that came in by another edge than the one
\* opposite to the edge left, away from the corner (0, 0).
C14_Witness ==
    /\ pc = "cube_loop"
    /\ last_step = "crossed"
    /\ position.x + position.y = face_length - 1
    /\ \E i \in FaceIndexes, e \in Directions :
           /\ get_neighbor(faces, i, e) = <<current_face, inverse(dir)>>
           /\ e # dir

\* The quarter turns from the old facing to the new one.
CrossingTurn == difference(dir, inverse(EntryEdge))

\* The free coordinate after the crossing, and the old coordinates of the
\* same axis and of the other axis.
FreeAxisIsX == EntryEdge \in {Up, Down}

NewFree == IF FreeAxisIsX THEN position'.x ELSE position'.y

OldSame == IF FreeAxisIsX THEN position.x ELSE position.y

OldOther == IF FreeAxisIsX THEN position.y ELSE position.x

\* C15, as claimed: for both fixed axes, Zero keeps the old coordinate of the
\* same axis, Ninety takes the old coordinate of the other axis, OneEighty
\* takes faceLength - 1 - the old coordinate of the same axis, TwoSeventy
\* takes faceLength - 1 - the old coordinate of the other axis.
C15_RemapSameForBothAxes ==
    [][CommittedCrossing =>
        NewFree = CASE CrossingTurn = Zero -> OldSame
                    [] CrossingTurn = Ninety -> OldOther
                    [] CrossingTurn = OneEighty -> face_length - 1 - OldSame
                    [] CrossingTurn = TwoSeventy -> face_length - 1 - OldOther
      ]_vars

\* C15, amended: the free coordinate is as claimed when it is x (entry by Up
\* or Down); when it is y (entry by Left or Right) the quarter turns are the
\* other way round: Ninety takes faceLength - 1 - the old x and TwoSeventy
\* takes the old x.
C15_RemapByFixedAxis ==
    [][CommittedCrossing =>
        NewFree = CASE CrossingTurn = Zero -> OldSame
                    [] CrossingTurn = OneEighty -> face_length - 1 - OldSame
                    [] CrossingTurn = Ninety /\ FreeAxisIsX -> OldOther
                    [] CrossingTurn = Ninety /\ ~FreeAxisIsX ->
                           face_length - 1 - OldOther
                    [] CrossingTurn = TwoSeventy /\ FreeAxisIsX ->
                           face_length - 1 - OldOther
                    [] CrossingTurn = TwoSeventy /\ ~FreeAxisIsX -> OldOther
      ]_vars

\* A crossing was committed that came in by the Left or Right edge after a
\* quarter turn of the facing.
C15_Witness ==
    /\ pc = "cube_loop"
    /\ last_step = "crossed"
    /\ is_horizontal(dir)
    /\ \E i \in FaceIndexes, e \in Directions :
           /\ get_neighbor(faces, i, e) = <<current_face, inverse(dir)>>
           /\ difference(e, dir) \in {Ninety, TwoSeventy}

\* C16: after every unit step the current face is one of the 6, both local
\* coordinates are in [0, faceLength), and the facing is one of the four
\* directions.
C16_CubeStateInRange ==
    pc = "cube_loop" =>
        /\ current_face \in FaceIndexes
        /\ position.x \in 0 .. (face_length - 1)
        /\ position.y \in 0 .. (face_length - 1)
        /\ dir \in Directions

\* A crossing has put the walk on the far edge of another face.
C16_Witness ==
    /\ pc = "cube_loop"
    /\ last_step = "crossed"
    /\ current_face # 0
    /\ position.x = face_length - 1 \/ position.y = face_length - 1

----------------------------------------------------------------------------
(* Instructions that do not move *)

\* A follow function takes up an instruction and stays in its loop.
InstructionStep == Following /\ remaining = 0 /\ pc' = pc

\* The step executes RotateLeft or RotateRight.
RotationStep ==
    InstructionStep /\ last_step' \in {"turned_left", "turned_right"}

\* The step leaves the place of the walk as it is: the position and the
\* current block index and face index.
SamePlace ==
    /\ position' = position
    /\ current_block_index' = current_block_index
    /\ current_face' = current_face

\* C17: in both navigators a RotateLeft or RotateRight changes the facing
\* and nothing else: the position, the current block index and the current
\* face index stay, and no unit step (the only place a wall set is looked
\* at) follows from it.
C17_RotationChangesFacingOnly ==
    [][RotationStep =>
        /\ SamePlace
        /\ remaining' = 0
        /\ dir' # dir
        /\ dir' = IF last_step' = "turned_left"
                  THEN rotate_left(dir)
                  ELSE rotate_right(dir)]_vars

\* A walk has turned in front of a wall, on a cell it had moved to.
C17_Witness ==
    /\ Following
    /\ last_step \in {"turned_left", "turned_right"}
    /\ position # (IF part = "a" THEN blocks[1].min ELSE Point(0, 0))
    /\ \E d \in Directions :
           IF part = "a"
           THEN IsWall(FlatTarget(blocks, current_block_index, position,
                                  d).next)
           ELSE LET t == CubeTarget(faces, face_length, current_face,
                                    position, d)
                IN  IsWall(PointAdd(t.position, faces[t.face + 1].min))

\* C18: in both navigators RotateLeft then RotateRight, and RotateRight
\* then RotateLeft, restore the facing and change nothing else: the rotation
\* that follows a rotation step the other way round gives back the facing
\* the step started from, and rotate_right(rotate_left(d)) = d =
\* rotate_left(rotate_right(d)) for all four directions.
C18_RotationRoundTrip ==
    [][RotationStep =>
        /\ SamePlace
        /\ remaining' = 0
        /\ last_step' = "turned_left" => rotate_right(dir') = dir
        /\ last_step' = "turned_right" => rotate_left(dir') = dir
        /\ \A d \in Directions :
               /\ rotate_right(rotate_left(d)) = d
               /\ rotate_left(rotate_right(d)) = d]_vars

\* A walk has turned left from Right to Up, and right from Up to Right.
C18_Witness ==
    /\ Following
    /\ \/ last_step = "turned_left" /\ dir = Up
       \/ last_step = "turned_right" /\ dir = Right
    /\ position # (IF part = "a" THEN blocks[1].min ELSE Point(0, 0))

\* C19: in both navigators Move(0) leaves the position, the facing and the
\* current block and face as they are, and no unit step follows from it,
\* whatever the cell ahead.
C19_MoveZeroIsNoOp ==
    [][(InstructionStep /\ last_step' = "stayed") =>
        /\ SamePlace
        /\ dir' = dir
        /\ remaining' = 0]_vars

\* Move(0) was executed in front of a wall, or in front of an edge of the
\* face.
C19_Witness ==
    /\ Following
    /\ last_step = "stayed"
    /\ IF part = "a"
       THEN IsWall(FlatTarget(blocks, current_block_index, position,
                              dir).next)
       ELSE LeavingEdge # None

----------------------------------------------------------------------------
(* The password *)

\* MonkeyCube::follow has returned and solve_b with it.
CubeFollowReturned ==
    /\ pc = "done"
    /\ part = "b"
    /\ Len(faces) = FaceCount
    /\ Unset = {}

\* C20: the result of the cube navigator is the absolute point
\* position + faces[current_face].min with the final facing, and the
\* password is 1000 * (y + 1) + 4 * (x + 1) + facingValue for that point
\* (x, y), with facingValue 0, 1, 2, 3 for Right, Down, Left, Up.
C20_CubePassword ==
    CubeFollowReturned =>
        LET min == faces[current_face + 1].min
            x == position.x + min.x
            y == position.y + min.y
            facingValue == CASE dir = Right -> 0
                             [] dir = Down -> 1
                             [] dir = Left -> 2
                             [] dir = Up -> 3
        IN  result = <<"Ok", 1000 * (y + 1) + 4 * (x + 1) + facingValue>>

\* solve_b has returned from a face away from the origin, off its diagonal,
\* facing Up.
C20_Witness ==
    /\ CubeFollowReturned
    /\ faces[current_face + 1].min.x # faces[current_face + 1].min.y
    /\ position.x # position.y
    /\ dir = Up

----------------------------------------------------------------------------
(* RotatingCubeFace::rotate and Rotation::difference called on their own *)

Facings == {FaceUp, FaceDown}

Rotations == 0 .. (RotationCount - 1)

RotatingCubeFaces ==
    {Flat(f, r) : f \in Facings, r \in Rotations}
        \cup {Standing(s, f) : s \in Directions, f \in Directions}

\* The number of calls of rotate made in a row
MaxCalls == 4

InitCalls ==
    /\ lines = <<>>
    /\ instructions = <<>>
    /\ part = "b"
    /\ pc \in {"rotate", "difference"}
    /\ blocks = <<>>
    /\ face_length = 0
    /\ faces = <<>>
    /\ cube_net = EmptyNet
    /\ folded_cube_net = EmptyNet
    /\ root = 0
    /\ queue = <<>>
    /\ seen = [i \in FaceIndexes |-> FALSE]
    /\ state = [i \in FaceIndexes |-> DefaultRotatingCubeFace]
    /\ popped = <<>>
    /\ current_block_index = 0
    /\ current_face = 0
    /\ position = Point(0, 0)
    /\ dir = Right
    /\ ip = 0
    /\ remaining = 0
    /\ last_step = "none"
    /\ result = Running
    /\ cube_face \in IF pc = "rotate"
                     THEN RotatingCubeFaces
                     ELSE {DefaultRotatingCubeFace}
    /\ calls = <<>>
    /\ runs = <<>>
    /\ flat_walk = NoFlatWalk

\* cube_face = cube_face.rotate(d), for any d
RotateCall ==
    /\ pc = "rotate"
    /\ Len(calls) < MaxCalls
    /\ \E d \in Directions :
           /\ cube_face' = rotate(cube_face, d)
           /\ calls' = Append(calls, [self |-> cube_face,
                                      dir |-> d,
                                      out |-> cube_face'])
    /\ UNCHANGED <<inputVars, pc, blocks, cubeVars, foldVars,
                   current_block_index, current_face, position, dir, ip,
                   remaining, last_step, result, runs,
                   flat_walk>>

\* Rotation::difference(from, to), for any from and to
DifferenceCall ==
    /\ pc = "difference"
    /\ calls = <<>>
    /\ \E from \in Directions, to \in Directions :
           calls' = <<[from |-> from,
                       to |-> to,
                       out |-> difference(from, to)]>>
    /\ UNCHANGED <<inputVars, pc, blocks, cubeVars, foldVars,
                   current_block_index, current_face, position, dir, ip,
                   remaining, last_step, result, cube_face, runs,
                   flat_walk>>

NextCalls ==
    \/ RotateCall
    \/ DifferenceCall

SpecCalls == InitCalls /\ [][NextCalls]_vars

----------------------------------------------------------------------------
(* Claims about rotate and difference *)

\* Calls k .. k + n - 1 of rotate were made and all have the direction of
\* call k.
SameDirectionRun(k, n) ==
    /\ k + n - 1 <= Len(calls)
    /\ \A m \in k .. (k + n - 1) : calls[m].dir = calls[k].dir

\* C21: from every Flat state, four calls of rotate in a row with one and
\* the same direction end in a Flat state with the facing of the start.
C21_FourRotationsKeepFacing ==
    pc = "rotate" =>
        \A k \in DOMAIN calls :
            (calls[k].self.kind = "Flat" /\ SameDirectionRun(k, 4)) =>
                /\ calls[k + 3].out.kind = "Flat"
                /\ calls[k + 3].out.a = calls[k].self.a

\* A face-down start with a quarter turn went through four calls with the
\* same direction.
C21_Witness ==
    /\ pc = "rotate"
    /\ Len(calls) >= 4
    /\ calls[1].self = Flat(FaceDown, Ninety)
    /\ SameDirectionRun(1, 4)
    /\ calls[1].dir = Down

----------------------------------------------------------------------------
(* Claims about the faces and the net *)

\* try_from has extracted the faces of a non-empty list of blocks.
Extracted ==
    /\ part = "b"
    /\ pc \notin {"parse", "try_from", "rotate", "difference"}
    /\ blocks # <<>>

\* C22: the face length try_from uses is the greatest height of a block, and
\* every face extracted is a square of that edge: max - min is
\* (face_length, face_length).
C22_FaceLengthIsMaxHeight ==
    Extracted =>
        /\ \A k \in DOMAIN blocks : height(blocks[k]) <= face_length
        /\ \E k \in DOMAIN blocks : height(blocks[k]) = face_length
        /\ \A k \in DOMAIN faces :
               PointSub(faces[k].max, faces[k].min)
                   = Point(face_length, face_length)

\* Faces were extracted from blocks of different heights.
C22_Witness ==
    /\ Extracted
    /\ faces # <<>>
    /\ \E k \in DOMAIN blocks, m \in DOMAIN blocks :
           height(blocks[k]) < height(blocks[m])

\* The faces extracted that lie in block k.
FacesIn(k) ==
    {m \in DOMAIN faces :
        /\ in_range(faces[m].min, blocks[k].min,
                    PointAdd(blocks[k].max, Point(1, 1)))
        /\ in_range(PointSub(faces[m].max, Point(1, 1)), blocks[k].min,
                    PointAdd(blocks[k].max, Point(1, 1)))}

\* C23: the faces have the least height of a block as their edge, and the
\* faces of a block partition it: every block has at least one face, and its
\* faces, squares that start at multiples of the edge, have the area of the
\* block between them.
C23_FaceLengthIsMinHeight ==
    Extracted =>
        /\ \A k \in DOMAIN blocks : face_length <= height(blocks[k])
        /\ \E k \in DOMAIN blocks : face_length = height(blocks[k])
        /\ \A k \in DOMAIN blocks :
               /\ FacesIn(k) # {}
               /\ Cardinality(FacesIn(k)) * face_length * face_length
                      = width(blocks[k]) * height(blocks[k])

\* try_from has built cube_net.
NetBuilt ==
    /\ part = "b"
    /\ pc \in {"fold_root", "fold_queue", "assign", "cube_loop"}

\* The bounds of face j are the bounds of face i moved by the face length in
\* direction d.
Abuts(i, j, d) ==
    LET by == Point(delta(d).x * face_length, delta(d).y * face_length)
    IN  /\ faces[j + 1].min = PointAdd(faces[i + 1].min, by)
        /\ faces[j + 1].max = PointAdd(faces[i + 1].max, by)

\* C24: in cube_net, face j is the neighbor of face i in direction d exactly
\* when the bounds of j are the bounds of i moved by the face length in
\* direction d; the links are symmetric; a direction in which no face abuts
\* is unset.
C24_NetIsAbutment ==
    NetBuilt =>
        \A i \in FaceIndexes, d \in Directions :
            /\ \A j \in FaceIndexes : cube_net[i][d] = j <=> Abuts(i, j, d)
            /\ \A j \in FaceIndexes :
                   cube_net[i][d] = j <=> cube_net[j][inverse(d)] = i
            /\ (\A j \in FaceIndexes : ~Abuts(i, j, d)) =>
                   cube_net[i][d] = None

----------------------------------------------------------------------------
(* Claims about the cases of rotate *)

\* The calls of rotate made on a Flat state
FlatCalls ==
    IF pc = "rotate"
    THEN {k \in DOMAIN calls : calls[k].self.kind = "Flat"}
    ELSE {}

\* The calls of rotate made on a Standing state
StandingCalls ==
    IF pc = "rotate"
    THEN {k \in DOMAIN calls : calls[k].self.kind = "Standing"}
    ELSE {}

\* What the face is turned by, as seen from its own rotation and facing:
\* mirror(rotation).apply(inverse(d)) face up, and face down
\* rotation.apply(inverse(d)) for a horizontal d, rotation.apply(d) for a
\* vertical one.
TurnedEdge(facing, rotated, d) ==
    IF facing = FaceUp
    THEN apply(mirror(rotated), inverse(d))
    ELSE apply(rotated, IF d \in {Left, Right} THEN inverse(d) ELSE d)

\* The direction of the turn as the face sees it: d face up, inverse(d) face
\* down.
SeenDirection(facing, d) == IF facing = FaceUp THEN d ELSE inverse(d)

\* C25 as stated: rotate on Flat(facing, rotation) gives a Standing state
\* whose first component, the one the folding run records as the direction
\* of the neighbor, is d face up and inverse(d) face down, and whose second
\* component is the turned edge.
C25_StandingOnIsDirection ==
    \A k \in FlatCalls :
        LET c == calls[k]
        IN  /\ c.out.kind = "Standing"
            /\ c.out.a = SeenDirection(c.self.a, c.dir)
            /\ c.out.b = TurnedEdge(c.self.a, c.self.b, c.dir)

\* C25, amended: rotate on Flat(facing, rotation) gives a Standing state
\* whose first component, the one the folding run records, is the turned
\* edge, and whose second component is d face up and inverse(d) face down.
C25_StandingOnIsTurnedEdge ==
    \A k \in FlatCalls :
        LET c == calls[k]
        IN  /\ c.out.kind = "Standing"
            /\ c.out.a = TurnedEdge(c.self.a, c.self.b, c.dir)
            /\ c.out.b = SeenDirection(c.self.a, c.dir)

\* rotate was called on a Flat state with a rotation for which the two
\* components differ, face up and face down.
C25_Witness ==
    /\ pc = "rotate"
    /\ Len(calls) >= 3
    /\ calls[1].self = Flat(FaceUp, Ninety)
    /\ calls[1].out.a # calls[1].out.b
    /\ calls[3].self.kind = "Flat"
    /\ calls[3].self.a = FaceDown
    /\ calls[3].out.a # calls[3].out.b

\* One counter-clockwise quarter turn of a direction, as on the compass the
\* program draws: Right -> Up -> Left -> Down -> Right.
CounterClockwise(d) ==
    CASE d = Right -> Up
      [] d = Up -> Left
      [] d = Left -> Down
      [] d = Down -> Right

RECURSIVE Turned(_, _)
Turned(d, k) == IF k = 0 THEN d ELSE Turned(CounterClockwise(d), k - 1)

\* The least number of counter-clockwise quarter turns that take from to to.
LeastTurn(from, to) ==
    CHOOSE k \in 0 .. 3 :
        /\ Turned(from, k) = to
        /\ \A m \in 0 .. (k - 1) : Turned(from, m) # to

Vertical(d) == d \in {Up, Down}

SameAxis(d, e) == Vertical(d) <=> Vertical(e)

Opposite(d) ==
    CASE d = Right -> Left
      [] d = Left -> Right
      [] d = Up -> Down
      [] d = Down -> Up

HalfTurned(rotation) == (rotation + 2) % 4

\* C26: rotate on Standing(standing_on, facing) with d on the axis of facing
\* gives a Flat state, face down if d = facing and face up otherwise.  Its
\* rotation is, for the vertical axis, the turn from standing_on to facing,
\* mirrored if d = standing_on; for the horizontal axis Zero if standing_on =
\* facing, OneEighty if standing_on is the inverse of facing, and otherwise
\* the turn from d to standing_on.
C26_StandingLaidFlat ==
    \A k \in StandingCalls :
        LET c == calls[k]
            standing_on == c.self.a
            facing == c.self.b
            turn == LeastTurn(standing_on, facing)
        IN  SameAxis(c.dir, facing) =>
                /\ c.out.kind = "Flat"
                /\ c.out.a = IF c.dir = facing THEN FaceDown ELSE FaceUp
                /\ c.out.b =
                       IF Vertical(facing)
                       THEN IF c.dir = standing_on
                            THEN HalfTurned(turn)
                            ELSE turn
                       ELSE IF standing_on = facing
                       THEN Zero
                       ELSE IF standing_on = Opposite(facing)
                       THEN OneEighty
                       ELSE LeastTurn(c.dir, standing_on)

\* A standing face was laid flat with a mirrored rotation on the vertical
\* axis, and another by the last case of the horizontal axis.
C26_Witness ==
    /\ \E k \in StandingCalls :
           /\ calls[k].self = Standing(Up, Down)
           /\ calls[k].dir = Up
           /\ calls[k].out = Flat(FaceUp, Zero)
    /\ \E k \in StandingCalls :
           /\ calls[k].self = Standing(Up, Right)
           /\ calls[k].dir = Right
           /\ calls[k].out.kind = "Flat"
           /\ calls[k].out.a = FaceDown

\* C27: rotate on Standing(standing_on, facing) with d on the other axis
\* than facing gives a Standing state with the same facing, standing on
\* standing_on turned by the turn from facing to d.
C27_StandingStaysStanding ==
    \A k \in StandingCalls :
        LET c == calls[k]
            standing_on == c.self.a
            facing == c.self.b
        IN  ~SameAxis(c.dir, facing) =>
                /\ c.out.kind = "Standing"
                /\ c.out.b = facing
                /\ c.out.a = Turned(standing_on, LeastTurn(facing, c.dir))

\* A standing face was turned to stand on another edge.
C27_Witness ==
    /\ pc = "rotate"
    /\ calls # <<>>
    /\ calls[1].self = Standing(Down, Right)
    /\ calls[1].dir = Up
    /\ calls[1].out = Standing(Right, Right)

\* The calls of difference made
DifferenceCalls == IF pc = "difference" THEN DOMAIN calls ELSE {}

\* C30: difference(from, to) returns, for each of the 16 pairs, the least
\* number k of 0 .. 3 of counter-clockwise quarter turns that take from to
\* to; so difference(from, to).apply(from) = to and difference(d, d) = Zero.
C30_DifferenceIsLeastTurn ==
    \A k \in DifferenceCalls :
        LET c == calls[k]
        IN  /\ c.out \in {Zero, Ninety, OneEighty, TwoSeventy}
            /\ c.out = LeastTurn(c.from, c.to)
            /\ apply(c.out, c.from) = c.to
            /\ c.from = c.to => c.out = Zero

\* difference was called with a pair three quarter turns apart.
C30_Witness ==
    /\ pc = "difference"
    /\ calls # <<>>
    /\ calls[1].from = Right
    /\ calls[1].to = Down
    /\ calls[1].out = TwoSeventy

----------------------------------------------------------------------------
(* Claims about the folding runs *)

\* Two rows of three faces that meet at a corner only: 6 faces, no link
\* between the rows.
TwoRows(fl) ==
    [k \in 1 .. (2 * fl) |->
        IF k <= fl
        THEN Line(0, 3 * fl - 1, {})
        ELSE Line(3 * fl, 6 * fl - 1, {})]

\* A block of width w1 and height h1 on a block of width w2 and height h2
\* (one block of height h1 + h2 if the widths are the same).
TwoBlocks(w1, h1, w2, h2) ==
    [k \in 1 .. (h1 + h2) |->
        IF k <= h1 THEN Line(0, w1 - 1, {}) ELSE Line(0, w2 - 1, {})]

BlockSizes == 1 .. (MaxFaceLen + 1)

FoldTexts ==
    NetTexts
        \cup {TwoRows(fl) : fl \in 1 .. MaxFaceLen}
        \cup {TwoBlocks(w1, h1, w2, h2) :
                 w1 \in BlockSizes, h1 \in BlockSizes,
                 w2 \in BlockSizes, h2 \in BlockSizes}

FoldInputs ==
    {[lines |-> t, instructions |-> <<>>, part |-> "b"] : t \in FoldTexts}

InitFold == \E input \in FoldInputs : InitOf(input)

\* MonkeyCube::try_from
NextFold ==
    \/ ParseMap
    \/ Extract
    \/ NetAdjacency
    \/ FoldRoot
    \/ FoldPop
    \/ Assign

\* try_from on the cube nets, on the two rows and on the pairs of blocks; a
\* run that has begun goes on to its end.
SpecFold == InitFold /\ [][NextFold]_vars /\ WF_vars(FoldPop)

Range(q) == {q[k] : k \in DOMAIN q}

NoRepeat(q) == Cardinality(Range(q)) = Len(q)

SeenFaces == {j \in FaceIndexes : seen[j]}

\* The faces a walk over the links of cube_net reaches from the faces of S.
RECURSIVE Reach(_)
Reach(S) ==
    LET more == S \cup ({cube_net[j][d] : j \in S, d \in Directions}
                            \ {None})
    IN  IF more = S THEN S ELSE Reach(more)

NetConnected == \A i \in FaceIndexes : Reach({i}) = FaceIndexes

\* A folding run is under way.
InRun == pc = "fold_queue"

\* In a folding run the faces seen are the faces popped and the faces in the
\* queue, each there once, and no more than 6 faces have been popped.
FoldRunInvariant ==
    InRun =>
        /\ NoRepeat(popped \o queue)
        /\ SeenFaces = Range(popped \o queue)
        /\ Len(popped) <= FaceCount
        /\ seen[root]
        /\ state[root] = Flat(FaceUp, Zero)

\* The step that begins a run, and the step that pops a face.
FoldRunStep ==
    LET begin == (pc = "fold_root" /\ pc' = "fold_queue") =>
                     /\ queue' = <<root>>
                     /\ SeenFaces' = {root}
                     /\ state'[root] = Flat(FaceUp, Zero)
                     /\ popped' = <<>>
        added == IF queue = <<>>
                 THEN <<>>
                 ELSE SubSeq(queue', Len(queue), Len(queue'))
        pop == (InRun /\ queue # <<>>) =>
                   /\ popped' = Append(popped, Head(queue))
                   /\ Len(queue') >= Len(queue) - 1
                   /\ queue' = Tail(queue) \o added
                   /\ Range(added) = SeenFaces' \ SeenFaces
                   /\ SeenFaces \subseteq SeenFaces'
                   /\ \A j \in FaceIndexes :
                          state'[j] # state[j] => j \in Range(added)
        end == (InRun /\ queue = <<>>) => pc' = "fold_root"
    IN  begin /\ pop /\ end

\* A run that is under way ends, with every face popped if the net is
\* connected.
FoldRunEnds ==
    InRun ~> (/\ pc = "fold_root"
              /\ Len(popped) <= FaceCount
              /\ NetConnected => Range(popped) = FaceIndexes)

\* C28: each folding run begins with only the root seen, in the state
\* Flat(FaceUp, Zero), and only the root in the queue; a face enters the
\* queue when it is first seen and never again; the state of a face other
\* than the root is set when the face is first seen and at no other time; the
\* run ends after at most 6 pops; on a connected net every face is popped.
C28_FoldRunVisitsOnce ==
    /\ []FoldRunInvariant
    /\ [][FoldRunStep]_vars
    /\ FoldRunEnds

\* A run on a connected net has ended with all 6 faces popped, the root
\* first.
C28_Witness ==
    /\ pc = "fold_root"
    /\ root = 3
    /\ NetConnected
    /\ Len(popped) = FaceCount
    /\ popped[1] = 2
    /\ \E j \in FaceIndexes : state[j].kind = "Standing"

----------------------------------------------------------------------------
(* The six folding runs of try_from, their steps taken in any order *)

\* The locals of the run for root i as lines 571-575 make them.
BegunRun(i) ==
    [queue |-> <<i>>,
     seen |-> [j \in FaceIndexes |-> j = i],
     state |-> [j \in FaceIndexes |->
                   IF j = i THEN Flat(FaceUp, Zero)
                   ELSE DefaultRotatingCubeFace]]

\* A cube net of face length 1, and the two rows of three faces, whose runs
\* end after three pops.
OrderTexts ==
    { NetLines({<<1, 0>>, <<0, 1>>, <<1, 1>>, <<2, 1>>, <<3, 1>>, <<1, 2>>},
               1),
      TwoRows(1) }

\* The state of try_from after its net loop, with the locals of all six
\* runs made.
InitOrders ==
    /\ lines \in OrderTexts
    /\ instructions = <<>>
    /\ part = "b"
    /\ pc = "fold_any_order"
    /\ blocks = from_str(lines)
    /\ face_length = cube_face_length(blocks)
    /\ faces = ExtractFaces(blocks, face_length)
    /\ cube_net = BuildNet(faces)
    /\ folded_cube_net = cube_net
    /\ root = 0
    /\ queue = <<>>
    /\ seen = [i \in FaceIndexes |-> FALSE]
    /\ state = [i \in FaceIndexes |-> DefaultRotatingCubeFace]
    /\ popped = <<>>
    /\ current_block_index = 0
    /\ current_face = 0
    /\ position = Point(0, 0)
    /\ dir = Right
    /\ ip = 0
    /\ remaining = 0
    /\ last_step = "none"
    /\ result = Running
    /\ cube_face = DefaultRotatingCubeFace
    /\ calls = <<>>
    /\ runs = [i \in FaceIndexes |-> BegunRun(i)]
    /\ flat_walk = NoFlatWalk

\* One turn of the while loop of the run for root i: queue.pop_front() and
\* the loop over the edges.
RunPop(i) ==
    /\ pc = "fold_any_order"
    /\ runs[i].queue # <<>>
    /\ LET st == FoldEdges([folded |-> folded_cube_net,
                            seen |-> runs[i].seen,
                            state |-> runs[i].state,
                            queue |-> Tail(runs[i].queue)],
                           cube_net, i, Head(runs[i].queue), 0)
       IN  /\ folded_cube_net' = st.folded
           /\ runs' = [runs EXCEPT ![i] = [queue |-> st.queue,
                                           seen |-> st.seen,
                                           state |-> st.state]]
    /\ UNCHANGED <<inputVars, pc, blocks, face_length, faces, cube_net,
                   foldVars, current_block_index, current_face, position,
                   dir, ip, remaining, last_step, result, cube_face, calls,
                   flat_walk>>

NextOrders == \E i \in FaceIndexes : RunPop(i)

SpecOrders == InitOrders /\ [][NextOrders]_vars

\* The run for root i from its locals st to its end, as the while loop runs
\* it.
RECURSIVE RunToEnd(_, _, _)
RunToEnd(st, net, i) ==
    IF st.queue = <<>>
    THEN st
    ELSE RunToEnd(FoldEdges([st EXCEPT !.queue = Tail(st.queue)],
                            net, i, Head(st.queue), 0),
                  net, i)

\* The loop over the roots from root i on, one run after the other.
RECURSIVE FoldFrom(_, _, _)
FoldFrom(folded, net, i) ==
    IF i >= FaceCount
    THEN folded
    ELSE FoldFrom(RunToEnd([folded |-> folded,
                            seen |-> BegunRun(i).seen,
                            state |-> BegunRun(i).state,
                            queue |-> BegunRun(i).queue],
                           net, i).folded,
                  net, i + 1)

\* folded_cube_net as the six runs leave it when run in the order of the
\* code.
SequentialFold == FoldFrom(cube_net, cube_net, 0)

\* Row i of folded_cube_net as the run for root i leaves it when it runs
\* from beginning to end with no step of another run in between.
RowOfRun(i) ==
    RunToEnd([folded |-> cube_net,
              seen |-> BegunRun(i).seen,
              state |-> BegunRun(i).state,
              queue |-> BegunRun(i).queue],
             cube_net, i).folded[i]

RunOver(i) == runs[i].queue = <<>>

\* The step is a step of the run for root i that writes row i of the folded
\* table and the locals of run i and nothing else, and that would write the
\* same locals whatever the folded table and the other runs hold.
StepOfRun(i) ==
    /\ \A j \in FaceIndexes \ {i} :
           /\ folded_cube_net'[j] = folded_cube_net[j]
           /\ runs'[j] = runs[j]
    /\ cube_net' = cube_net
    /\ LET alone == FoldEdges([folded |-> EmptyNet,
                               seen |-> runs[i].seen,
                               state |-> runs[i].state,
                               queue |-> Tail(runs[i].queue)],
                              cube_net, i, Head(runs[i].queue), 0)
       IN  /\ runs'[i].queue = alone.queue
           /\ runs'[i].seen = alone.seen
           /\ runs'[i].state = alone.state
           /\ \A d \in Directions :
                  folded_cube_net'[i][d] =
                      IF alone.folded[i][d] # None
                      THEN alone.folded[i][d]
                      ELSE folded_cube_net[i][d]

\* C29: the six folding runs are independent.  Whatever the order in which
\* the steps of the runs are taken, a step of run i writes only row i of the
\* folded table and the locals of run i, from cube_net and the locals of run
\* i alone; row i of the folded table is, once run i is over, what run i
\* leaves there when run without interruption; and once all runs are over
\* the folded table is what the runs leave when run one after the other.
C29_RunsIndependent ==
    /\ [](pc = "fold_any_order" =>
              /\ \A i \in FaceIndexes :
                     RunOver(i) => folded_cube_net[i] = RowOfRun(i)
              /\ (\A i \in FaceIndexes : RunOver(i)) =>
                     folded_cube_net = SequentialFold)
    /\ [][pc = "fold_any_order" =>
              \E i \in FaceIndexes : runs[i].queue # <<>> /\ StepOfRun(i)]_vars

\* On a connected net the last run is over and has set an edge of its row,
\* while the first run and the fourth have begun and are not over.
C29_Witness ==
    /\ pc = "fold_any_order"
    /\ RunOver(5)
    /\ folded_cube_net[5] # cube_net[5]
    /\ Len(runs[0].queue) > 0
    /\ runs[0].seen # BegunRun(0).seen
    /\ runs[3].seen # BegunRun(3).seen
    /\ ~RunOver(3)
    /\ NetConnected

\* ---------------------------------------------------------------------
\* Face extraction and the walls of the faces
\* ---------------------------------------------------------------------

\* The cells of block k, both bounds of a block included.
BlockCells(k) ==
    {Point(x, y) : x \in blocks[k].min.x .. blocks[k].max.x,
                   y \in blocks[k].min.y .. blocks[k].max.y}

\* The faces whose bounds hold the absolute cell p.
FacesHolding(p) ==
    {m \in DOMAIN faces : in_range(p, faces[m].min, faces[m].max)}

\* Face m comes before face n in row-major order.
RowMajorBefore(m, n) ==
    \/ faces[m].min.y < faces[n].min.y
    \/ /\ faces[m].min.y = faces[n].min.y
       /\ faces[m].min.x < faces[n].min.x

\* C31: the faces of a block are emitted in row-major order; every cell of
\* every block lies in exactly one face; a cell of a block is a wall of the
\* block exactly when its offset from the face's min is a wall of the face
\* that holds it; every wall of a face lies in [0, face_length) on both axes.
C31_FacesPartitionBlocks ==
    Extracted =>
        /\ \A k \in DOMAIN blocks :
               \A m \in FacesIn(k), n \in FacesIn(k) :
                   m < n => RowMajorBefore(m, n)
        /\ \A k \in DOMAIN blocks :
               \A p \in BlockCells(k) :
                   /\ Cardinality(FacesHolding(p)) = 1
                   /\ \A m \in FacesHolding(p) :
                          p \in blocks[k].walls
                              <=> PointSub(p, faces[m].min) \in faces[m].walls
        /\ \A m \in DOMAIN faces :
               \A w \in faces[m].walls :
                   in_range(w, Point(0, 0), Point(face_length, face_length))

\* ---------------------------------------------------------------------
\* Invariants of the two navigators
\* ---------------------------------------------------------------------

\* MonkeyMap::follow is in its loop over the instructions.
FlatFollowing == part = "a" /\ pc = "flat_loop"

\* C32: after every unit step of MonkeyMap::follow, a step cancelled by a
\* wall included, the position lies within the bounds of the block recorded
\* as current: min <= position <= max on both axes.
C32_PositionInCurrentBlock ==
    FlatFollowing =>
        /\ CurrentBlock.min.x <= position.x
        /\ position.x <= CurrentBlock.max.x
        /\ CurrentBlock.min.y <= position.y
        /\ position.y <= CurrentBlock.max.y

\* MonkeyMap::follow has started: it is in its loop or has returned.
FlatFollowed ==
    /\ part = "a"
    /\ pc \in {"flat_loop", "done"}
    /\ blocks # <<>>

\* C33: if the start cell blocks[0].min is not a wall, the position of
\* MonkeyMap::follow is never a wall cell of any block.
C33_FlatNeverOnWall ==
    (FlatFollowed /\ \A k \in DOMAIN blocks : blocks[1].min \notin blocks[k].walls)
        => \A k \in DOMAIN blocks : position \notin blocks[k].walls

\* The walk started off a wall, was stopped by a wall of another block than
\* the one it stands in, and has moved on since.
C33_Witness ==
    /\ FlatFollowing
    /\ \A k \in DOMAIN blocks : blocks[1].min \notin blocks[k].walls
    /\ \E k \in DOMAIN blocks : blocks[k].walls # {}
    /\ last_step = "moved"
    /\ ~C32_PositionInCurrentBlock

\* C34: if local cell (0, 0) of face 0 is not a wall, the local position of
\* MonkeyCube::follow is never in the wall set of its current face.
C34_CubeNeverOnWall ==
    (CubeBuilt /\ Point(0, 0) \notin faces[1].walls)
        => position \notin faces[current_face + 1].walls

\* The walk started off a wall and has crossed an edge onto a face that has
\* a wall.
C34_Witness ==
    /\ CubeBuilt
    /\ Point(0, 0) \notin faces[1].walls
    /\ last_step = "crossed"
    /\ current_face # 0
    /\ faces[current_face + 1].walls # {}

\* ---------------------------------------------------------------------
\* The neighbor tables of a cube
\* ---------------------------------------------------------------------

\* try_from has returned a cube.
CubeMade == part = "b" /\ pc \in {"cube_loop", "done"} /\ Len(faces) = FaceCount
               /\ (pc = "done" => result[1] = "Ok")

\* The slots of face j's table that hold face i.
BackReferences(i, j) ==
    {d \in Directions : faces[j + 1].neighbors[d] = i}

\* C35: in every cube try_from returns, the four neighbor entries of a face
\* are pairwise distinct and none is the face itself, so the table of every
\* neighbor holds the face in exactly one slot.
C35_NeighborsDistinct ==
    CubeMade =>
        \A i \in FaceIndexes :
            /\ \A d \in Directions :
                   faces[i + 1].neighbors[d] \in FaceIndexes \ {i}
            /\ \A d \in Directions, e \in Directions :
                   d # e => faces[i + 1].neighbors[d] # faces[i + 1].neighbors[e]
            /\ \A d \in Directions :
                   Cardinality(BackReferences(i, faces[i + 1].neighbors[d])) = 1

\* A cube was returned on which every face has a neighbor that only the
\* folding found.
C35_Witness ==
    /\ CubeMade
    /\ pc = "cube_loop"
    /\ \A i \in FaceIndexes :
           \E d \in Directions :
               /\ cube_net[i][d] = None
               /\ faces[i + 1].neighbors[d] \in FaceIndexes

\* ---------------------------------------------------------------------
\* Folding and the flat net
\* ---------------------------------------------------------------------

\* The slots of the folded table the pop of face p writes in the run of
\* root i, each with the face written: the edges of p that lead to a face
\* not yet seen and turn the state of p into a Standing state.
PopWrites(p) ==
    {<<rotate(state[p], e).a, cube_net[p][e]>> :
        e \in {d \in Directions :
                  /\ cube_net[p][d] # None
                  /\ ~seen[cube_net[p][d]]
                  /\ rotate(state[p], d).kind = "Standing"}}

\* No step changes a slot of the folded table that is set, and the writes of
\* one pop to one slot are of one face.
FoldKeepsSlots ==
    LET kept == \A i \in FaceIndexes, d \in Directions :
                    folded_cube_net[i][d] # None
                        => folded_cube_net'[i][d] = folded_cube_net[i][d]
        once == (InRun /\ queue # <<>>) =>
                    \A v \in PopWrites(Head(queue)),
                       w \in PopWrites(Head(queue)) :
                        v[1] = w[1] => v[2] = w[2]
    IN  kept /\ once

\* C36: folding extends the flat net and never contradicts it: a slot of
\* the folded table that holds a face keeps that face in every later step, so
\* no direct net neighbor is overwritten and no slot is written with two
\* different faces; when the runs are over folded[i][d] is net[i][d] wherever
\* net[i][d] is set.
C36_FoldExtendsNet ==
    /\ [](NetBuilt =>
             \A i \in FaceIndexes, d \in Directions :
                 cube_net[i][d] # None
                     => folded_cube_net[i][d] = cube_net[i][d])
    /\ [][FoldKeepsSlots]_vars

\* ---------------------------------------------------------------------
\* Crossing an edge and coming back
\* ---------------------------------------------------------------------

\* The local cells of a face.
LocalCells == {Point(x, y) : x \in 0 .. (face_length - 1),
                             y \in 0 .. (face_length - 1)}

\* No face of the cube has a wall.
WallFree == \A k \in DOMAIN faces : faces[k].walls = {}

\* Move(1), RotateLeft, RotateLeft, Move(1) from face f, local cell p, facing
\* d at an edge of f: the state after the second Move.
ThereAndBack(f, p, d) ==
    LET t == CubeTarget(faces, face_length, f, p, d)
    IN  CubeTarget(faces, face_length, t.face, t.position,
                   rotate_left(rotate_left(t.dir)))

\* C37: on a cube without walls, from every face, local cell and facing
\* whose next unit step crosses an edge, Move(1), RotateLeft, RotateLeft,
\* Move(1) ends on the same face at the same local cell, facing the opposite
\* way.
C37_CrossingsReverse ==
    (CubeBuilt /\ WallFree) =>
        \A f \in FaceIndexes, p \in LocalCells, d \in Directions :
            CubeTarget(faces, face_length, f, p, d).crossed =>
                LET back == ThereAndBack(f, p, d)
                IN  /\ ~back.panic
                    /\ back.crossed
                    /\ back.face = f
                    /\ back.position = p
                    /\ back.dir = inverse(d)

\* The walk has crossed an edge with a turn of its facing, onto a cell from
\* which the way back crosses with a turn as well, on faces of more than one
\* cell.
C37_Witness ==
    /\ CubeBuilt
    /\ WallFree
    /\ face_length > 1
    /\ last_step = "crossed"
    /\ LET back == CubeTarget(faces, face_length, current_face, position,
                              rotate_left(rotate_left(dir)))
       IN  /\ back.crossed
           /\ back.dir # inverse(dir)
           /\ back.position.x # position.x
           /\ back.position.y # position.y

\* ---------------------------------------------------------------------
\* The two navigators side by side
\* ---------------------------------------------------------------------

\* The texts of the two nets with no wall or one wall, and the text of the
\* first net under a line of one cell.
BothTexts ==
    (NavTexts \ {<<>>}) \cup
    {<<Line(2 * MaxFaceLen, 2 * MaxFaceLen, {})>>
        \o NetLines({<<2, 0>>, <<0, 1>>, <<1, 1>>, <<2, 1>>, <<2, 2>>, <<3, 2>>},
                    MaxFaceLen)}

BothInputs ==
    {[lines |-> t, instructions |-> <<>>, part |-> "b"] : t \in BothTexts}

InitBoth == \E input \in BothInputs : InitOf(input)

\* MonkeyMap::follow up to its instruction loop, on the map the cube was
\* built from
BothFollow ==
    /\ pc = "cube_loop"
    /\ ~flat_walk.started
    /\ flat_walk' = [started |-> TRUE,
                     current_block_index |-> 0,
                     position |-> blocks[1].min,
                     dir |-> Right,
                     remaining |-> 0,
                     exited |-> FALSE]
    /\ UNCHANGED <<inputVars, cube_face, calls, runs,
                   pc, blocks, cubeVars, foldVars, current_block_index,
                   current_face, position, dir, ip, remaining, last_step,
                   result>>

\* Both follow functions take the same instruction from the sequence.
BothAnyInstruction ==
    /\ pc = "cube_loop"
    /\ flat_walk.started
    /\ ~flat_walk.exited
    /\ remaining = 0
    /\ flat_walk.remaining = 0
    /\ \E instruction \in NavInstructions :
           /\ Execute(instruction)
           /\ flat_walk' =
                  [flat_walk EXCEPT
                      !.dir = CASE instruction.op = "RotateLeft" ->
                                       rotate_left(@)
                                [] instruction.op = "RotateRight" ->
                                       rotate_right(@)
                                [] OTHER -> @,
                      !.remaining = IF instruction.op = "Move"
                                    THEN instruction.n
                                    ELSE 0]
    /\ UNCHANGED <<inputVars, cube_face, calls, runs,
                   blocks, cubeVars, foldVars, current_block_index,
                   current_face, position, ip>>

\* A unit step from the local cell p with facing d leaves face 0.
LeavesFirstFace(p, d) ==
    ~in_range(PointAdd(p, delta(d)), Point(0, 0),
              Point(face_length, face_length))

\* Both follow functions take one turn of the loop 0..n of the Move, each
\* if its Move has not been cancelled.
BothStep ==
    /\ pc = "cube_loop"
    /\ flat_walk.started
    /\ ~flat_walk.exited
    /\ remaining > 0 \/ flat_walk.remaining > 0
    /\ IF remaining > 0
       THEN LET t == CubeTarget(faces, face_length, current_face, position,
                                dir)
            IN  IF t.panic
                THEN /\ result' = <<"Panic",
                                    "called Option::unwrap() on a None value">>
                     /\ pc' = "done"
                     /\ UNCHANGED <<current_face, position, dir, remaining,
                                    last_step>>
                ELSE IF CubeBlocked(faces, t)
                THEN /\ remaining' = 0
                     /\ last_step' = "blocked"
                     /\ UNCHANGED <<current_face, position, dir, pc, result>>
                ELSE /\ current_face' = t.face
                     /\ position' = t.position
                     /\ dir' = t.dir
                     /\ remaining' = remaining - 1
                     /\ last_step' = IF t.crossed THEN "crossed" ELSE "moved"
                     /\ UNCHANGED <<pc, result>>
       ELSE UNCHANGED <<current_face, position, dir, remaining, last_step,
                        pc, result>>
    /\ LET out == \/ /\ remaining > 0
                     /\ current_face = 0 => LeavesFirstFace(position, dir)
                  \/ /\ flat_walk.remaining > 0
                     /\ LeavesFirstFace(
                            PointSub(flat_walk.position, faces[1].min),
                            flat_walk.dir)
       IN  IF flat_walk.remaining > 0
           THEN LET t == FlatTarget(blocks, flat_walk.current_block_index,
                                    flat_walk.position, flat_walk.dir)
                IN  flat_walk' =
                        IF FlatBlocked(blocks, t)
                        THEN [flat_walk EXCEPT
                                 !.current_block_index = t.index,
                                 !.remaining = 0,
                                 !.exited = out]
                        ELSE [flat_walk EXCEPT
                                 !.current_block_index = t.index,
                                 !.position = t.next,
                                 !.remaining = @ - 1,
                                 !.exited = out]
           ELSE flat_walk' = [flat_walk EXCEPT !.exited = out]
    /\ UNCHANGED <<inputVars, cube_face, calls, runs,
                   blocks, cubeVars, foldVars, current_block_index, ip>>

NextBoth ==
    \/ ParseMap
    \/ Extract
    \/ NetAdjacency
    \/ FoldRoot
    \/ FoldPop
    \/ Assign
    \/ BothFollow
    \/ BothAnyInstruction
    \/ BothStep

SpecBoth == InitBoth /\ [][NextBoth]_vars

\* Both follow functions are between two instructions and no unit step of
\* either has tried to leave face 0.
BothOnFirstFace ==
    /\ pc = "cube_loop"
    /\ flat_walk.started
    /\ ~flat_walk.exited
    /\ remaining = 0
    /\ flat_walk.remaining = 0

\* C38: on every map from which try_from builds a cube, as long as no unit
\* step has tried to leave face 0, after every instruction the position of
\* MonkeyMap::follow is the local position of MonkeyCube::follow plus
\* faces[0].min, and the two facings are equal.
C38_NavigatorsAgreeOnFirstFace ==
    BothOnFirstFace =>
        /\ flat_walk.position = PointAdd(position, faces[1].min)
        /\ flat_walk.dir = dir

\* ---------------------------------------------------------------------
\* Rolling a face back
\* ---------------------------------------------------------------------

\* Call k + 1 of rotate has the direction opposite to that of call k.
RolledBack(k) ==
    /\ k + 1 <= Len(calls)
    /\ calls[k + 1].dir = inverse(calls[k].dir)

\* C39: for every state s, Flat or Standing, and every direction d,
\* s.rotate(d).rotate(inverse(d)) is s; and four calls of rotate in a row
\* with one and the same direction from a Flat state end in that state, with
\* its rotation as well as its facing.
C39_RollBackUndoes ==
    pc = "rotate" =>
        \A k \in DOMAIN calls :
            /\ RolledBack(k) => calls[k + 1].out = calls[k].self
            /\ (calls[k].self.kind = "Flat" /\ SameDirectionRun(k, 4))
                   => calls[k + 3].out = calls[k].self

====
